---------------------------- MODULE Spec2Model ----------------------------
(***************************************************************************)
(* Model of the Ernesto tutor (epppn-tutor): the tutor route               *)
(* (src/unnamed/part_001: extractGraphJsonBlock, getSignals, buildRadar,   *)
(* ensureGenericChartsAlways, POST).                                        *)
(*                                                                         *)
(* Texts are sequences of characters (one-character strings); the few      *)
(* non-ASCII characters of the source are written "deg" (the degree sign), *)
(* "euro", "ecirc" and "ucirc" (e and u with a circumflex).                 *)
(***************************************************************************)
EXTENDS Integers, Sequences, FiniteSets, TLC

(***************************************************************************)
(* Characters and the string primitives of JavaScript the source uses.     *)
(***************************************************************************)
Digits == {"0", "1", "2", "3", "4", "5", "6", "7", "8", "9"}

\* a run of 309 digits 9, written as one unit of a text
LongRun == "9{309}"

LowerLetters ==
    {"a", "b", "c", "d", "e", "f", "g", "h", "i", "j", "k", "l", "m",
     "n", "o", "p", "q", "r", "s", "t", "u", "v", "w", "x", "y", "z"}

UpperLetters ==
    {"A", "B", "C", "D", "E", "F", "G", "H", "I", "J", "K", "L", "M",
     "N", "O", "P", "Q", "R", "S", "T", "U", "V", "W", "X", "Y", "Z"}

\* \s of a regular expression and the characters String.prototype.trim removes
Whitespace == {" ", "\t", "\n"}

\* \w of a regular expression: ASCII letters, digits and the underscore
IsWordChar(c) == c \in Digits \cup {LongRun} \cup LowerLetters \cup UpperLetters \cup {"_"}

IsDigit(c) == c \in Digits \cup {LongRun}

DigitVal(c) ==
    CASE c = "0" -> 0 [] c = "1" -> 1 [] c = "2" -> 2 [] c = "3" -> 3
      [] c = "4" -> 4 [] c = "5" -> 5 [] c = "6" -> 6 [] c = "7" -> 7
      [] c = "8" -> 8 [] c = "9" -> 9

\* one character of String.prototype.toLowerCase
LowerChar(c) ==
    CASE c = "A" -> "a" [] c = "B" -> "b" [] c = "C" -> "c" [] c = "D" -> "d"
      [] c = "E" -> "e" [] c = "F" -> "f" [] c = "G" -> "g" [] c = "H" -> "h"
      [] c = "I" -> "i" [] c = "J" -> "j" [] c = "K" -> "k" [] c = "L" -> "l"
      [] c = "M" -> "m" [] c = "N" -> "n" [] c = "O" -> "o" [] c = "P" -> "p"
      [] c = "Q" -> "q" [] c = "R" -> "r" [] c = "S" -> "s" [] c = "T" -> "t"
      [] c = "U" -> "u" [] c = "V" -> "v" [] c = "W" -> "w" [] c = "X" -> "x"
      [] c = "Y" -> "y" [] c = "Z" -> "z" [] OTHER -> c

toLowerCase(s) == [i \in 1..Len(s) |-> LowerChar(s[i])]

\* the pattern pat occurs in s at position i
MatchAt(s, i, pat) ==
    /\ i >= 1
    /\ i + Len(pat) - 1 <= Len(s)
    /\ \A k \in 1..Len(pat) : s[i + k - 1] = pat[k]

\* String.prototype.includes
includes(s, pat) ==
    \E i \in 1..(Len(s) - Len(pat) + 1) :
        (pat = <<>> \/ s[i] = pat[1]) /\ MatchAt(s, i, pat)

\* \b after the word character at position i: the end of the text or a non-word character
BoundaryAfter(s, i) == i >= Len(s) \/ ~IsWordChar(s[i + 1])

\* \b before the word character at position i
BoundaryBefore(s, i) == i <= 1 \/ ~IsWordChar(s[i - 1])

\* the first position >= i that holds no whitespace (Len(s) + 1 when there is none)
RECURSIVE SkipSpaces(_, _)
SkipSpaces(s, i) ==
    IF i <= Len(s) /\ s[i] \in Whitespace THEN SkipSpaces(s, i + 1) ELSE i

\* the first position >= i that holds no digit
RECURSIVE SkipDigits(_, _)
SkipDigits(s, i) ==
    IF i <= Len(s) /\ IsDigit(s[i]) THEN SkipDigits(s, i + 1) ELSE i

\* /pat\b/ : pat (ending in a word character) followed by a word boundary
MatchesWordEnd(s, pat) ==
    \E i \in 1..(Len(s) - Len(pat) + 1) :
        MatchAt(s, i, pat) /\ BoundaryAfter(s, i + Len(pat) - 1)

\* /(\d+)\s*pat\b/ : a digit, optional whitespace, pat, a word boundary
MatchesDigitsThen(s, pat) ==
    \E i \in 1..Len(s) :
        /\ IsDigit(s[i])
        /\ LET j == SkipSpaces(s, i + 1)
           IN  MatchAt(s, j, pat) /\ BoundaryAfter(s, j + Len(pat) - 1)

\* /w\s*\d+/ (and /w\d+/ when spaces is FALSE)
MatchesWDigits(s, spaces) ==
    \E i \in 1..Len(s) :
        /\ s[i] = "w"
        /\ LET j == IF spaces THEN SkipSpaces(s, i + 1) ELSE i + 1
           IN  j <= Len(s) /\ IsDigit(s[j])

(***************************************************************************)
(* Numbers. A JavaScript number read from a decimal literal is the record  *)
(* [neg, ip, fp]: sign, integer part, and the fraction digits without      *)
(* their trailing zeros; two literals denote the same number exactly when  *)
(* the records are equal (-0 and 0 are the same element of a Set).  An      *)
(* integer part of more than 308 digits is beyond the largest double: the  *)
(* number is Infinity, written ip = -1.                                     *)
(***************************************************************************)
RECURSIVE DigitsValue(_)
DigitsValue(ds) ==
    IF ds = <<>> THEN 0
    ELSE IF ds[Len(ds)] = LongRun THEN -1
    ELSE LET rest == DigitsValue(SubSeq(ds, 1, Len(ds) - 1))
         IN  IF rest = -1 THEN -1 ELSE 10 * rest + DigitVal(ds[Len(ds)])

RECURSIVE StripTrailingZeros(_)
StripTrailingZeros(ds) ==
    IF ds # <<>> /\ ds[Len(ds)] = "0"
    THEN StripTrailingZeros(SubSeq(ds, 1, Len(ds) - 1))
    ELSE ds

\* Number(String(s).replace(",", ".")) for a match of the number pattern
Number(m) ==
    LET neg  == m[1] = "-"
        body == IF neg THEN Tail(m) ELSE m
        e    == SkipDigits(body, 1)
        ip   == DigitsValue(SubSeq(body, 1, e - 1))
        fp   == StripTrailingZeros(SubSeq(body, e + 1, Len(body)))
    IN  [neg |-> neg /\ (ip # 0 \/ fp # <<>>), ip |-> ip, fp |-> fp]

\* the end (exclusive) of the match of /-?\d+(?:[.,]\d+)?/ starting at i, 0 when none
NumberEndAt(s, i) ==
    LET p == IF s[i] = "-" THEN i + 1 ELSE i
    IN  IF p > Len(s) \/ ~IsDigit(s[p]) THEN 0
        ELSE LET d == SkipDigits(s, p)
             IN  IF d + 1 <= Len(s) /\ s[d] \in {".", ","} /\ IsDigit(s[d + 1])
                 THEN SkipDigits(s, d + 1)
                 ELSE d

\* msg.match(/-?\d+(?:[.,]\d+)?/g) ?? [] : the successive matches from position i on
RECURSIVE numberMatchesFrom(_, _)
numberMatchesFrom(s, i) ==
    IF i > Len(s) THEN <<>>
    ELSE LET e == NumberEndAt(s, i)
         IN  IF e = 0 THEN numberMatchesFrom(s, i + 1)
             ELSE <<SubSeq(s, i, e - 1)>> \o numberMatchesFrom(s, e)

numberMatches(msg) == numberMatchesFrom(msg, 1)

\* Number.isFinite
isFinite(n) == n.ip >= 0

\* the numbers of the matches, without the filter
numsUnfiltered(msg) ==
    LET ms == numberMatches(msg)
    IN  [i \in 1..Len(ms) |-> Number(ms[i])]

\* lines 21-24
nums(msg) ==
    LET ms == numberMatches(msg)
    IN  SelectSeq([i \in 1..Len(ms) |-> Number(ms[i])], isFinite)

(***************************************************************************)
(* getSignals (src/unnamed/part_001:17-72), on the lowercased message.     *)
(***************************************************************************)
hasUnits(msg) ==
    \/ includes(msg, <<"%">>)
    \/ includes(msg, <<"deg", "c">>)
    \/ MatchesWordEnd(msg, <<"c">>)
    \/ MatchesWDigits(msg, FALSE)
    \/ MatchesWDigits(msg, TRUE)
    \/ MatchesWordEnd(msg, <<"h">>)
    \/ includes(msg, <<"h", "e", "u", "r", "e">>)
    \/ MatchesWordEnd(msg, <<"m", "i", "n">>)
    \/ includes(msg, <<"m", "i", "n", "u", "t", "e">>)
    \/ includes(msg, <<"euro">>)
    \/ includes(msg, <<"e", "u", "r">>)
    \/ MatchesWordEnd(msg, <<"k", "g">>)
    \/ MatchesWordEnd(msg, <<"g">>)
    \/ MatchesWordEnd(msg, <<"g", "r">>)
    \/ includes(msg, <<"t", "deg">>)
    \/ includes(msg, <<"t", "e", "m", "p">>)

hasVariables(msg) ==
    /\ Len(nums(msg)) > 0
    /\ \/ hasUnits(msg)
       \/ includes(msg, <<"w", "2", "6", "0">>)
       \/ includes(msg, <<"w", "3", "2", "0">>)

isComparison(msg) ==
    \/ includes(msg, <<"c", "o", "m", "p", "a", "r", "e", "r">>)
    \/ includes(msg, <<"c", "o", "m", "p", "a", "r", "a", "i", "s", "o", "n">>)
    \/ includes(msg, <<"v", "s">>)
    \/ includes(msg, <<"v", "e", "r", "s", "u", "s">>)
    \/ includes(msg, <<"w", "2", "6", "0">>)
    \/ includes(msg, <<"w", "3", "2", "0">>)
    \/ \E i \in 1..(Len(msg) - 1) :
          /\ MatchAt(msg, i, <<"o", "u">>)
          /\ BoundaryBefore(msg, i)
          /\ BoundaryAfter(msg, i + 1)

isProtocol(msg) ==
    \/ includes(msg, <<"p", "r", "o", "t", "o", "c", "o", "l", "e">>)
    \/ includes(msg, <<"p", "l", "a", "n", "n", "i", "n", "g">>)
    \/ includes(msg, <<"t", "i", "m", "e", "l", "i", "n", "e">>)
    \/ includes(msg, <<"p", "o", "i", "n", "t", "a", "g", "e">>)
    \/ includes(msg, <<"a", "p", "p", "r", "ecirc", "t">>)
    \/ includes(msg, <<"a", "p", "p", "r", "e", "t">>)
    \/ includes(msg, <<"f", "r", "i", "g", "o">>)
    \/ includes(msg, <<"4", "8", "h">>)
    \/ includes(msg, <<"4", "8", " ", "h">>)
    \/ includes(msg, <<"2", "4", "h">>)
    \/ includes(msg, <<"2", "4", " ", "h">>)
    \/ includes(msg, <<"7", "2", "h">>)
    \/ includes(msg, <<"7", "2", " ", "h">>)
    \/ MatchesDigitsThen(msg, <<"h">>)
    \/ MatchesDigitsThen(msg, <<"m", "i", "n">>)

\* the oven keywords tested before the flour keywords
topicFoursFirst(msg) ==
    IF \/ includes(msg, <<"f", "o", "u", "r">>)
       \/ includes(msg, <<"c", "u", "i", "s", "s", "o", "n">>)
       \/ includes(msg, <<"s", "o", "l", "e">>)
       \/ includes(msg, <<"v", "o", "ucirc", "t", "e">>)
       \/ includes(msg, <<"v", "o", "u", "t", "e">>)
    THEN "fours"
    ELSE IF includes(msg, <<"f", "a", "r", "i", "n", "e">>) \/ MatchesWDigits(msg, FALSE)
    THEN "farines"
    ELSE IF \/ includes(msg, <<"m", "a", "r", "g", "e">>)
            \/ includes(msg, <<"r", "e", "n", "t", "a", "b", "l", "e">>)
            \/ includes(msg, <<"c", "o", "ucirc", "t">>)
            \/ includes(msg, <<"c", "o", "u", "t">>)
            \/ includes(msg, <<"euro">>)
    THEN "economie"
    ELSE IF \/ includes(msg, <<"c", "o", "n", "c", "u", "r", "r", "e", "n", "c", "e">>)
            \/ includes(msg, <<"p", "o", "s", "i", "t", "i", "o", "n", "n", "e", "m", "e", "n", "t">>)
            \/ includes(msg, <<"u", "s", "p">>)
    THEN "concurrence"
    ELSE IF \/ includes(msg, <<"o", "r", "g", "a", "n", "i", "s", "a", "t", "i", "o", "n">>)
            \/ includes(msg, <<"p", "r", "o", "c", "e", "s", "s">>)
            \/ includes(msg, <<"r", "u", "s", "h">>)
            \/ includes(msg, <<"s", "e", "r", "v", "i", "c", "e">>)
    THEN "organisation"
    ELSE "general"

topic(msg) ==
    IF includes(msg, <<"f", "a", "r", "i", "n", "e">>) \/ MatchesWDigits(msg, FALSE)
    THEN "farines"
    ELSE IF \/ includes(msg, <<"f", "o", "u", "r">>)
            \/ includes(msg, <<"c", "u", "i", "s", "s", "o", "n">>)
            \/ includes(msg, <<"s", "o", "l", "e">>)
            \/ includes(msg, <<"v", "o", "ucirc", "t", "e">>)
            \/ includes(msg, <<"v", "o", "u", "t", "e">>)
    THEN "fours"
    ELSE IF \/ includes(msg, <<"m", "a", "r", "g", "e">>)
            \/ includes(msg, <<"r", "e", "n", "t", "a", "b", "l", "e">>)
            \/ includes(msg, <<"c", "o", "ucirc", "t">>)
            \/ includes(msg, <<"c", "o", "u", "t">>)
            \/ includes(msg, <<"euro">>)
    THEN "economie"
    ELSE IF \/ includes(msg, <<"c", "o", "n", "c", "u", "r", "r", "e", "n", "c", "e">>)
            \/ includes(msg, <<"p", "o", "s", "i", "t", "i", "o", "n", "n", "e", "m", "e", "n", "t">>)
            \/ includes(msg, <<"u", "s", "p">>)
    THEN "concurrence"
    ELSE IF \/ includes(msg, <<"o", "r", "g", "a", "n", "i", "s", "a", "t", "i", "o", "n">>)
            \/ includes(msg, <<"p", "r", "o", "c", "e", "s", "s">>)
            \/ includes(msg, <<"r", "u", "s", "h">>)
            \/ includes(msg, <<"s", "e", "r", "v", "i", "c", "e">>)
    THEN "organisation"
    ELSE "general"

getSignals(message) ==
    LET msg == toLowerCase(message)
    IN  [msg          |-> msg,
         nums         |-> nums(msg),
         hasVariables |-> hasVariables(msg),
         hasUnits     |-> hasUnits(msg),
         isComparison |-> isComparison(msg),
         isProtocol   |-> isProtocol(msg),
         topic        |-> topic(msg)]

(***************************************************************************)
(* JavaScript values as JSON.parse produces them. A value is the record    *)
(* [kind, truthy, props]: its type, its truthiness (!graph), and its named *)
(* properties (of an object, or set on an array by assignment).  A         *)
(* property that holds a sequence is [k, v]: k is "undefined", "array" or  *)
(* the type of another value, v the elements of an array.  Accented        *)
(* letters of the source's literal texts are written without the accent.   *)
(***************************************************************************)
Undefined == [k |-> "undefined", v |-> <<>>]

Array(elems) == [k |-> "array", v |-> elems]

\* a property holding a string, which is not an array
NotAnArray == [k |-> "string", v |-> <<>>]

\* Array.isArray
isArray(p) == p.k = "array"

NoRecap == [k |-> "undefined", columns |-> Undefined, rows |-> Undefined, note |-> "undefined"]

RecapObject(columns, rows, note) ==
    [k |-> "object", columns |-> columns, rows |-> rows, note |-> note]

NoProps ==
    [title |-> "undefined", summary |-> "undefined", confidence |-> -1,
     a |-> Undefined, charts |-> Undefined, checklist |-> Undefined, questions |-> Undefined,
     recap_table |-> NoRecap]

JsNull == [kind |-> "null", truthy |-> FALSE, props |-> NoProps]

JsPrimitive(kind, truthy) == [kind |-> kind, truthy |-> truthy, props |-> NoProps]

JsObject(props) == [kind |-> "object", truthy |-> TRUE, props |-> props]

JsArray == [kind |-> "array", truthy |-> TRUE, props |-> NoProps]

\* typeof v === "object" (null, arrays and objects)
typeofObject(v) == v.kind \in {"null", "array", "object"}

NoData ==
    [labels |-> <<>>, values |-> <<>>, unit |-> "undefined", steps |-> <<>>,
     x_label |-> "undefined", y_label |-> "undefined", points |-> <<>>,
     note |-> "undefined", table |-> NoRecap]

Chart(type, title, description, data) ==
    [type |-> type, title |-> title, description |-> description, data |-> data]

clamp(n, lo, hi) ==
    LET min == IF hi < n THEN hi ELSE n
    IN  IF lo > min THEN lo ELSE min

buildRadar(t) ==
    IF t = "farines" THEN
        [NoData EXCEPT
           !.labels = <<"Force (W)", "Tolerance froid", "Extensibilite", "Absorption",
                        "Regularite", "Risques (tenace)">>,
           !.values = <<70, 75, 60, 65, 70, 55>>,
           !.note = "Radar qualitatif (0-100). Ajustable des que tu fournis % hydratation, T, inoculation et duree."]
    ELSE IF t = "fours" THEN
        [NoData EXCEPT
           !.labels = <<"Stabilite T", "Recuperation", "Sole (homog.)", "Puissance",
                        "Consommation", "Budget/ROI">>,
           !.values = <<70, 70, 65, 75, 55, 60>>,
           !.note = "Radar qualitatif (0-100) pour comparer des options de fours."]
    ELSE IF t = "economie" THEN
        [NoData EXCEPT
           !.labels = <<"Cout matiere", "Temps prep", "Prix percu", "Marge",
                        "Complexite", "Vitesse service">>,
           !.values = <<65, 60, 70, 70, 55, 65>>,
           !.note = "Radar qualitatif (0-100). Fournis 2-3 couts pour le rendre chiffre."]
    ELSE IF t = "organisation" THEN
        [NoData EXCEPT
           !.labels = <<"Mise en place", "Flux", "Standardisation", "Qualite",
                        "Stress", "Debit">>,
           !.values = <<65, 60, 65, 70, 55, 60>>,
           !.note = "Radar qualitatif (0-100) sur l'efficacite operationnelle."]
    ELSE IF t = "concurrence" THEN
        [NoData EXCEPT
           !.labels = <<"Differenciation", "Lisibilite offre", "Prix", "Localisation",
                        "Preuves qualite", "Repetabilite">>,
           !.values = <<65, 60, 60, 55, 70, 60>>,
           !.note = "Radar qualitatif (0-100) pour structurer un positionnement."]
    ELSE
        [NoData EXCEPT
           !.labels = <<"Fermentation", "Hydratation", "Petrissage", "Faconnage",
                        "Cuisson", "Organisation">>,
           !.values = <<60, 60, 60, 60, 60, 60>>,
           !.note = "Radar generique (0-100). Donne 3 parametres pour le personnaliser."]

RadarChart(t) ==
    Chart("radar", "Radar (auto) - lecture scientifique",
          "Scores qualitatifs (0-100) pour visualiser compromis / risques / leviers.",
          buildRadar(t))

TimelineSteps ==
    << [label |-> "Petrissage", minutes |-> 15,
        purpose |-> "Developper reseau sans chauffer (viser T pate stable)"],
       [label |-> "Pointage", minutes |-> 60,
        purpose |-> "Demarrage fermentation (observer volume/tension)"],
       [label |-> "Boulage", minutes |-> 10,
        purpose |-> "Creer tension de surface (patons homogenes)"],
       [label |-> "Froid", minutes |-> 2880,
        purpose |-> "48h frigo (maturation/tenue)"],
       [label |-> "Remise T", minutes |-> 120,
        purpose |-> "Reactiver fermentation avant cuisson"] >>

TimelineChart ==
    Chart("timeline", "Timeline (auto) - structure du protocole",
          "Etapes typiques (a ajuster selon T frigo, inoculation, force farine).",
          [NoData EXCEPT
             !.steps = TimelineSteps,
             !.note = "Timeline indicative. Donne T frigo + inoculation (% levure/levain) pour calibrer."])

\* a bar chart whose labels and values ignore the topic
BarChartGeneric(t) ==
    Chart("bar", "Comparaison (auto) - scores relatifs",
          "Plus haut = plus adapte au cas decrit (qualitatif).",
          [NoData EXCEPT
             !.labels = <<"Option A", "Option B">>,
             !.values = <<65, 70>>,
             !.unit = "score",
             !.note = "Scores indicatifs (qualitatifs). Ajoute 2-3 parametres pour quantifier."])

BarChart(t) ==
    Chart("bar", "Comparaison (auto) - scores relatifs",
          "Plus haut = plus adapte au cas decrit (qualitatif).",
          [NoData EXCEPT
             !.labels = IF t = "farines" THEN <<"Option A (W260)", "Option B (W320)">>
                        ELSE <<"Option A", "Option B">>,
             !.values = IF t = "farines" THEN <<60, 78>> ELSE <<65, 70>>,
             !.unit = "score",
             !.note = "Scores indicatifs (qualitatifs). Ajoute 2-3 parametres pour quantifier."])

\* nums.slice(0, n)
slice(s, n) == SubSeq(s, 1, IF Len(s) < n THEN Len(s) ELSE n)

\* Array.from(new Set(s)): the elements of s in order of first occurrence
RECURSIVE Unique(_)
Unique(s) ==
    IF s = <<>> THEN <<>>
    ELSE LET rest == Unique(SubSeq(s, 1, Len(s) - 1))
             last == s[Len(s)]
         IN  IF \E i \in 1..Len(rest) : rest[i] = last THEN rest
             ELSE Append(rest, last)

\* the decimal digits of a natural number
RECURSIVE NatToString(_)
NatToString(n) ==
    LET d == <<"0", "1", "2", "3", "4", "5", "6", "7", "8", "9">>[(n % 10) + 1]
    IN  IF n < 10 THEN <<d>> ELSE Append(NatToString(n \div 10), d)

\* String(v) of a number
NumberToString(v) ==
    (IF v.neg THEN <<"-">> ELSE <<>>)
        \o NatToString(v.ip)
        \o (IF v.fp = <<>> THEN <<>> ELSE <<".">> \o v.fp)

\* the six first distinct values of the whole text, not of its six first numbers
ScatterPointsAllDistinct(ns) ==
    LET x == slice(Unique(ns), 6)
    IN  [i \in 1..Len(x) |->
            [x |-> x[i], y |-> clamp(55 + (i - 1) * 6, 40, 90), label |-> NumberToString(x[i])]]

\* the six first numbers as they are, duplicates kept
ScatterPointsNoDedup(ns) ==
    LET x == slice(ns, 6)
    IN  [i \in 1..Len(x) |->
            [x |-> x[i], y |-> clamp(55 + (i - 1) * 6, 40, 90), label |-> NumberToString(x[i])]]

ScatterPoints(ns) ==
    LET x == slice(Unique(slice(ns, 6)), 6)
    IN  [i \in 1..Len(x) |->
            [x |-> x[i], y |-> clamp(55 + (i - 1) * 6, 40, 90), label |-> NumberToString(x[i])]]

ScatterChart(ns) ==
    Chart("scatter", "Scatter (auto) - sensibilite (qualitative)",
          "Projection qualitative : comment une variable (x) peut influencer un score (y).",
          [NoData EXCEPT
             !.x_label = "Valeur detectee",
             !.y_label = "Score qualitatif",
             !.points = ScatterPoints(ns),
             !.note = "Scatter qualitatif (demonstration). Pour du chiffre: precise la variable (hydratation, T, inoculation) et la mesure cible."])

TableChart(recap) ==
    Chart("table", "Tableau (auto) - synthese", "Genere automatiquement (structure).",
          [NoData EXCEPT !.table = recap])

AutoRecap ==
    RecapObject(Array(<<"Levier", "Action", "Indicateur">>), Array(<<>>),
                "Tableau cree automatiquement (structure).")

FixedRows ==
    << <<"Temperature", "Stabiliser T pate et T frigo", "T pate (sonde) + tenue patons">>,
       <<"Temps", "Ajuster 1 variable a la fois", "Volume + extensibilite + bullage">>,
       <<"Inoculation", "Reduire/augmenter levure/levain selon T", "Odeur + vitesse de pousse">> >>

\* charts needed whatever the speed
needChartsAnySpeed(speed, sig) == sig.hasVariables \/ sig.isComparison \/ sig.isProtocol

\* const needCharts = speed === "APPROFONDIE" && (hasVariables || isComparison || isProtocol)
needCharts(speed, sig) ==
    speed = "APPROFONDIE" /\ (sig.hasVariables \/ sig.isComparison \/ sig.isProtocol)

\* the table chart appended whether or not the list is empty
BuildChartsWithTable(sig, recap) ==
    LET c1 == <<RadarChart(sig.topic)>>
        c2 == IF sig.isProtocol THEN Append(c1, TimelineChart) ELSE c1
        c3 == IF sig.isComparison THEN Append(c2, BarChart(sig.topic)) ELSE c2
        c4 == IF Len(sig.nums) >= 2 THEN Append(c3, ScatterChart(sig.nums)) ELSE c3
    IN  Append(c4, TableChart(recap))

\* the scatter chart pushed only for two distinct numbers
BuildChartsScatterDistinct(sig, recap) ==
    LET c1 == <<RadarChart(sig.topic)>>
        c2 == IF sig.isProtocol THEN Append(c1, TimelineChart) ELSE c1
        c3 == IF sig.isComparison THEN Append(c2, BarChart(sig.topic)) ELSE c2
        c4 == IF Len(Unique(sig.nums)) >= 2 THEN Append(c3, ScatterChart(sig.nums)) ELSE c3
    IN  IF Len(c4) = 0 THEN <<TableChart(recap)>> ELSE c4

\* the bar chart pushed before the timeline chart
BuildChartsBarFirst(sig, recap) ==
    LET c1 == <<RadarChart(sig.topic)>>
        c2 == IF sig.isComparison THEN Append(c1, BarChart(sig.topic)) ELSE c1
        c3 == IF sig.isProtocol THEN Append(c2, TimelineChart) ELSE c2
        c4 == IF Len(sig.nums) >= 2 THEN Append(c3, ScatterChart(sig.nums)) ELSE c3
    IN  c4

\* the charts built at lines 153-227
BuildCharts(sig, recap) ==
    LET c1 == <<RadarChart(sig.topic)>>
        c2 == IF sig.isProtocol THEN Append(c1, TimelineChart) ELSE c1
        c3 == IF sig.isComparison THEN Append(c2, BarChart(sig.topic)) ELSE c2
        c4 == IF Len(sig.nums) >= 2 THEN Append(c3, ScatterChart(sig.nums)) ELSE c3
    IN  IF Len(c4) = 0 THEN <<TableChart(recap)>> ELSE c4

\* the fixed rows only for a rows property that is no array, an empty one kept
FillRecapMissingOnly(recap) ==
    IF ~isArray(recap.rows)
    THEN [recap EXCEPT
            !.columns = Array(<<"Levier", "Action", "Indicateur">>),
            !.rows = Array(FixedRows),
            !.note = "Tableau auto (a personnaliser des que tu donnes 3 parametres)."]
    ELSE recap

\* lines 232-240: the recap table gets the fixed rows when it has none
FillRecap(recap) ==
    IF ~isArray(recap.rows) \/ Len(recap.rows.v) = 0
    THEN [recap EXCEPT
            !.columns = Array(<<"Levier", "Action", "Indicateur">>),
            !.rows = Array(FixedRows),
            !.note = "Tableau auto (a personnaliser des que tu donnes 3 parametres)."]
    ELSE recap

\* without the early return of line 151: the charts are rebuilt even when present
ensureGenericChartsRebuild(graph, speed, msgText) ==
    IF ~graph.truthy \/ ~typeofObject(graph) THEN graph
    ELSE
      LET sig == getSignals(msgText)
          p0  == graph.props
          p1  == [p0 EXCEPT
                    !.charts = IF isArray(p0.charts) THEN p0.charts ELSE Array(<<>>),
                    !.checklist = IF isArray(p0.checklist) THEN p0.checklist ELSE Array(<<>>),
                    !.questions = IF isArray(p0.questions) THEN p0.questions ELSE Array(<<>>),
                    !.recap_table = IF p0.recap_table.k # "object" THEN AutoRecap
                                    ELSE p0.recap_table]
      IN  IF ~needCharts(speed, sig) THEN [graph EXCEPT !.props = p1]
          ELSE [graph EXCEPT
                  !.props = [p1 EXCEPT
                               !.charts = Array(BuildCharts(sig, p1.recap_table)),
                               !.recap_table = FillRecap(p1.recap_table)]]

\* without the early return of line 151, the built charts pushed after the given ones
ensureGenericChartsAppend(graph, speed, msgText) ==
    IF ~graph.truthy \/ ~typeofObject(graph) THEN graph
    ELSE
      LET sig == getSignals(msgText)
          p0  == graph.props
          p1  == [p0 EXCEPT
                    !.charts = IF isArray(p0.charts) THEN p0.charts ELSE Array(<<>>),
                    !.checklist = IF isArray(p0.checklist) THEN p0.checklist ELSE Array(<<>>),
                    !.questions = IF isArray(p0.questions) THEN p0.questions ELSE Array(<<>>),
                    !.recap_table = IF p0.recap_table.k # "object" THEN AutoRecap
                                    ELSE p0.recap_table]
      IN  IF ~needCharts(speed, sig) THEN [graph EXCEPT !.props = p1]
          ELSE [graph EXCEPT
                  !.props = [p1 EXCEPT
                               !.charts = Array(p1.charts.v \o BuildCharts(sig, p1.recap_table)),
                               !.recap_table = FillRecap(p1.recap_table)]]

ensureGenericChartsAlways(graph, speed, msgText) ==
    IF ~graph.truthy \/ ~typeofObject(graph) THEN graph
    ELSE
      LET sig == getSignals(msgText)
          p0  == graph.props
          p1  == [p0 EXCEPT
                    !.charts = IF isArray(p0.charts) THEN p0.charts ELSE Array(<<>>),
                    !.checklist = IF isArray(p0.checklist) THEN p0.checklist ELSE Array(<<>>),
                    !.questions = IF isArray(p0.questions) THEN p0.questions ELSE Array(<<>>),
                    !.recap_table = IF p0.recap_table.k # "object" THEN AutoRecap
                                    ELSE p0.recap_table]
      IN  IF ~needCharts(speed, sig) THEN [graph EXCEPT !.props = p1]
          ELSE IF Len(p1.charts.v) > 0 THEN [graph EXCEPT !.props = p1]
          ELSE [graph EXCEPT
                  !.props = [p1 EXCEPT
                               !.charts = Array(BuildCharts(sig, p1.recap_table)),
                               !.recap_table = FillRecap(p1.recap_table)]]

(***************************************************************************)
(* The model's raw output is a sequence of lexical units: the sentinel     *)
(* markers (in either case, the pattern is case-insensitive), whitespace,  *)
(* words of prose, and pieces of JSON text.                                 *)
(***************************************************************************)
OpenMarkers == {"<GRAPH_JSON>", "<graph_json>"}

CloseMarkers == {"</GRAPH_JSON>", "</graph_json>"}

\* String.prototype.trim
RECURSIVE trimEnd(_)
trimEnd(s) ==
    IF s # <<>> /\ s[Len(s)] \in Whitespace THEN trimEnd(SubSeq(s, 1, Len(s) - 1)) ELSE s

trim(s) == trimEnd(SubSeq(s, SkipSpaces(s, 1), Len(s)))

\* raw.match(/<GRAPH_JSON>\s*([\s\S]*?)\s*<\/GRAPH_JSON>/i): the leftmost opening
\* marker that a closing marker follows, up to the first closing marker after it;
\* the group is what lies between, without the whitespace the two \s* take
regexMatch(raw) ==
    LET starts == {i \in 1..Len(raw) :
                      /\ raw[i] \in OpenMarkers
                      /\ \E j \in (i + 1)..Len(raw) : raw[j] \in CloseMarkers}
    IN  IF starts = {} THEN [found |-> FALSE, m0 |-> <<>>, m1 |-> <<>>]
        ELSE LET i == CHOOSE x \in starts : \A y \in starts : x <= y
                 j == CHOOSE x \in (i + 1)..Len(raw) :
                          /\ raw[x] \in CloseMarkers
                          /\ \A y \in (i + 1)..(x - 1) : raw[y] \notin CloseMarkers
             IN  [found |-> TRUE,
                  m0    |-> SubSeq(raw, i, j),
                  m1    |-> trimEnd(SubSeq(raw, SkipSpaces(raw, i + 1), j - 1))]

\* s.replace(pat, ""): the first occurrence of the text pat is removed
replaceFirst(s, pat) ==
    LET at == {i \in 1..(Len(s) - Len(pat) + 1) : MatchAt(s, i, pat)}
    IN  IF at = {} THEN s
        ELSE LET i == CHOOSE x \in at : \A y \in at : x <= y
             IN  SubSeq(s, 1, i - 1) \o SubSeq(s, i + Len(pat), Len(s))

\* a string or null
NullString == [null |-> TRUE, s |-> <<>>]

StringOf(s) == [null |-> FALSE, s |-> s]

\* the narrative text keeps the delimited block
extractKeepingBlock(raw) ==
    LET m == regexMatch(raw)
    IN  IF ~m.found \/ m.m1 = <<>> THEN [text |-> trim(raw), json |-> NullString]
        ELSE [text |-> trim(raw), json |-> StringOf(trim(m.m1))]

extractGraphJsonBlock(raw) ==
    LET m == regexMatch(raw)
    IN  IF ~m.found \/ m.m1 = <<>> THEN [text |-> trim(raw), json |-> NullString]
        ELSE [text |-> trim(replaceFirst(raw, m.m0)), json |-> StringOf(trim(m.m1))]

(***************************************************************************)
(* JSON.parse on the pieces of JSON text of the model.  A piece is a       *)
(* complete JSON text, except ObjPrefix and ObjSuffix, which enclose the   *)
(* content of a string: {"a":" ... "}.                                      *)
(***************************************************************************)
ModelChart == Chart("bar", "Hydratation", "du modele", [NoData EXCEPT
                  !.labels = <<"60%", "70%">>, !.values = <<3, 4>>, !.unit = "note"])

ModelRecap == RecapObject(Array(<<"a", "b", "c">>), Array(<< <<"x", "y", "z">> >>), "du modele")

ObjPrefix == "{\"a\":\""

ObjSuffix == "\"}"

JsonTexts ==
    {"{}", "{\"charts\":[]}", "{\"charts\":[{bar}]}", "{\"charts\":[{bar}],\"recap_table\":{..}}",
     "null", "0", "5", "\"s\"", "[]"}

JsonValue(tok) ==
    CASE tok = "{}" -> JsObject(NoProps)
      [] tok = "{\"charts\":[]}" ->
            JsObject([NoProps EXCEPT !.title = "Reponse", !.charts = Array(<<>>)])
      [] tok = "{\"charts\":[{bar}]}" ->
            JsObject([NoProps EXCEPT !.title = "Reponse", !.charts = Array(<<ModelChart>>)])
      [] tok = "{\"charts\":[{bar}],\"recap_table\":{..}}" ->
            JsObject([NoProps EXCEPT !.title = "Reponse", !.charts = Array(<<ModelChart>>),
                                     !.recap_table = ModelRecap])
      [] tok = "null" -> JsNull
      [] tok = "0" -> JsPrimitive("number", FALSE)
      [] tok = "5" -> JsPrimitive("number", TRUE)
      [] tok = "\"s\"" -> JsPrimitive("string", TRUE)
      [] tok = "[]" -> JsArray

\* the units that may stand inside a JSON string: no quote, no line break
StringSafe(tok) == tok \notin {"\n", "\t", "\"s\"", ObjPrefix, ObjSuffix}

\* JSON.parse(text): [ok, value]; ok is FALSE when it throws
JSONparse(text) ==
    LET t == trim(text)
    IN  IF Len(t) = 1 /\ t[1] \in JsonTexts
          THEN [ok |-> TRUE, value |-> JsonValue(t[1])]
        ELSE IF Len(t) >= 2 /\ \A k \in 1..Len(t) : t[k] \in {"0", "5"}
          THEN [ok |-> t[1] # "0", value |-> JsPrimitive("number", TRUE)]
        ELSE IF /\ Len(t) >= 2
                /\ t[1] = ObjPrefix
                /\ t[Len(t)] = ObjSuffix
                /\ \A k \in 2..(Len(t) - 1) : StringSafe(t[k])
          THEN [ok |-> TRUE,
                value |-> JsObject([NoProps EXCEPT
                                      !.a = [k |-> "string", v |-> SubSeq(t, 2, Len(t) - 1)]])]
        ELSE [ok |-> FALSE, value |-> JsNull]

\* the placeholder of lines 380-388
Placeholder ==
    JsObject([NoProps EXCEPT
                !.title = "Synthese",
                !.summary = "Donnees structurees indisponibles (erreur JSON).",
                !.confidence = 40,
                !.charts = Array(<<>>),
                !.checklist = Array(<<>>),
                !.recap_table = RecapObject(Array(<<"Levier", "Action", "Indicateur">>),
                                            Array(<<>>), "JSON non recuperable."),
                !.questions = Array(<<>>)])

\* JSON.stringify, as NextResponse.json applies it: the named properties set on an
\* array are not part of its JSON text
Serialize(v) == IF v.kind = "array" THEN [v EXCEPT !.props = NoProps] ELSE v

(***************************************************************************)
(* The tutor route, POST (src/unnamed/part_001:245-396), as a process that *)
(* stops at each await of a completion call.                                *)
(***************************************************************************)
VARIABLES
    message,    \* the question of the request (a text)
    hasMessage, \* the body of the request carries a message
    speed,      \* the speed of the request: "undefined", "VITE" or "APPROFONDIE"
    apiKey,     \* process.env.OPENAI_API_KEY is set
    pc,         \* where the handler stands
    raw1,       \* r1.output_text
    raw2,       \* r2.output_text, trimmed
    text_fr,    \* the narrative text
    json1,      \* the candidate payload (a string or null)
    graph,      \* the envelope
    graph0,     \* the envelope handed to ensureGenericChartsAlways
    calls,      \* the completion calls issued so far
    pending,    \* the completion calls in flight
    log,        \* the steps of the handler, in order
    response    \* what the caller receives

\* the state of the retrieval route (src/unnamed/part_000)
VARIABLES
    route,              \* the route that handles the request: "tutor" or "retrieval"
    supabaseUrl,        \* process.env.SUPABASE_URL is set
    supabaseKey,        \* process.env.SUPABASE_SERVICE_ROLE_KEY is set
    contextText,        \* the optional context of the request
    imageDataUrl,       \* the request carries an image
    matches,            \* data of the similarity search
    matchErr,           \* error of the similarity search
    retrieved,          \* the matches kept for the prompt
    retrievedContext    \* the excerpt section of the prompt

\* the state of the authentication middleware (src/middleware.ts)
VARIABLES
    USER,       \* process.env.ERNESTO_USER (a string or undefined)
    PASS,       \* process.env.ERNESTO_PASS (a string or undefined)
    auth,       \* the authorization header of the request (a string or null)
    outcome     \* what the middleware returned: "next" or "401"

\* the state of the chat page (src/unnamed/part_002, src/app/page.tsx)
VARIABLES
    chat,           \* the messages of the conversation
    loading,        \* a request is in progress
    rendered,       \* the value of loading in the handlers of the last render
    selectedImage,  \* a photo is attached
    requests        \* the invocations of askTutor that sent a request

\* the dictation of the chat page (src/unnamed/part_002:168-187, 228-229, 306-332)
VARIABLES
    dictating,      \* the dictating flag of the page
    stopDictRef,    \* stopDictRef.current: 0 for null, or the session whose stop it holds
    sessions,       \* the recognition sessions started so far
    supported       \* the browser has a SpeechRecognition constructor

tutorVars == <<message, hasMessage, speed, apiKey, pc, raw1, raw2, text_fr, json1, graph, graph0,
               calls, pending, log, response>>

ragVars == <<route, supabaseUrl, supabaseKey, contextText, imageDataUrl, matches, matchErr,
             retrieved, retrievedContext>>

\* the result of one application of getSignals
VARIABLES signals

authVars == <<USER, PASS, auth, outcome>>

dictVars == <<dictating, stopDictRef, sessions, supported>>

chatVars == <<chat, loading, rendered, selectedImage, requests, dictVars>>

vars == <<tutorVars, ragVars, authVars, chatVars, signals>>

NoResponse == [status |-> 0, error |-> "", text_fr |-> <<>>, graph |-> JsNull]

ErrorResponse(status, error) ==
    [status |-> status, error |-> error, text_fr |-> <<>>, graph |-> JsNull]

\* NextResponse.json({ text_fr, graph })
OkResponse(text, g) == [status |-> 200, error |-> "", text_fr |-> text, graph |-> Serialize(g)]

\* const sp: Speed = speed ?? "VITE"
sp == IF speed = "undefined" THEN "VITE" ELSE speed

(***************************************************************************)
(* Bounds and input sets.                                                   *)
(***************************************************************************)
\* words of prose around the delimited block of a raw output
MaxProse == 1

\* words of a question
MaxWords == 2

RECURSIVE SeqsUpTo(_, _)
SeqsUpTo(S, n) ==
    IF n = 0 THEN {<<>>}
    ELSE LET shorter == SeqsUpTo(S, n - 1)
         IN  shorter \cup {Append(q, x) : q \in shorter, x \in S}

ProseUnits == {"Bonjour", " ", "<GRAPH_JSON>", "</graph_json>"}

Proses == SeqsUpTo(ProseUnits, MaxProse)

Payloads ==
    { <<>>, <<"{}">>, <<"{\"charts\":[]}">>, <<"{\"charts\":[{bar}]}">>,
      <<"null">>, <<"0">>, <<"5">>, <<"\"s\"">>, <<"[]">>, <<"{oops">>,
      <<ObjPrefix, "</GRAPH_JSON>", ObjSuffix>>, <<ObjPrefix, "Bonjour", ObjSuffix>> }

Paddings == {<<>>, <<"\n">>}

Blocks ==
    { <<o>> \o w \o p \o w \o <<c>> :
        o \in {"<GRAPH_JSON>"}, c \in {"</GRAPH_JSON>"}, w \in Paddings, p \in Payloads }

\* what the primary completion call may return
RawOutputs == Proses \cup { b \o k \o a : b \in Proses, k \in Blocks, a \in Proses }

\* what the repair completion call may return
RepairOutputs ==
    { <<>>, <<"{}">>, <<"\n", "{\"charts\":[{bar}]}", "\n">>, <<"null">>, <<"5">>, <<"[]">>,
      <<"{oops">>, <<"Bonjour", " ", "{}">> }

Words ==
    { <<"C","o","m","p","a","r","e","r">>, <<"W","2","6","0">>, <<"4","8","h">>,
      <<"f","r","i","g","o">>, <<"1","5","g">>, <<"1","2",",","5","0">>,
      <<"p","i","z","z","a">>,
      <<"1"," ","1"," ","1"," ","1"," ","1"," ","1">>,
      <<"2"," ","3"," ","4"," ","5"," ","6"," ","7"," ","8">> }

\* the questions of at most n words, the words separated by one space
RECURSIVE Sentences(_)
Sentences(n) ==
    IF n = 0 THEN {<<>>}
    ELSE LET shorter == Sentences(n - 1)
         IN  shorter \cup Words \cup {q \o <<" ">> \o w : q \in shorter \ {<<>>}, w \in Words}

Scenario ==
    <<"C","o","m","p","a","r","e","r"," ","W","2","6","0"," ","v","s"," ","W","3","2","0"," ",
      "p","o","u","r"," ","f","e","r","m","e","n","t","a","t","i","o","n"," ",
      "4","8","h"," ","a","u"," ","f","r","o","i","d">>

Messages == Sentences(MaxWords) \cup {Scenario}

\* the questions of the requests to the route
TutorMessages == { <<>>, <<" ">>, <<"4","8","h"," ","f","r","i","g","o">> }

(***************************************************************************)
(* The handler.                                                             *)
(***************************************************************************)
\* data of a similarity search: null, or the rows
NullRows == [null |-> TRUE, rows |-> <<>>]

Rows(q) == [null |-> FALSE, rows |-> q]

NoSignals ==
    [msg |-> <<>>, nums |-> <<>>, hasVariables |-> FALSE, hasUnits |-> FALSE,
     isComparison |-> FALSE, isProtocol |-> FALSE, topic |-> ""]

SignalsIdle == signals = NoSignals

\* the middleware and the chat page take no part in the handling of a request by a route
AuthIdle ==
    /\ USER = NullString
    /\ PASS = NullString
    /\ auth = NullString
    /\ outcome = ""

DictIdle ==
    /\ dictating = FALSE
    /\ stopDictRef = 0
    /\ sessions = <<>>
    /\ supported = FALSE

ChatIdle ==
    /\ DictIdle
    /\ chat = <<>>
    /\ loading = FALSE
    /\ rendered = FALSE
    /\ selectedImage = FALSE
    /\ requests = <<>>

\* the retrieval route takes no part in a request to the tutor route
RagIdle ==
    /\ route = "tutor"
    /\ supabaseUrl = FALSE
    /\ supabaseKey = FALSE
    /\ contextText = "undefined"
    /\ imageDataUrl = FALSE
    /\ matches = NullRows
    /\ matchErr = FALSE
    /\ retrieved = <<>>
    /\ retrievedContext = <<>>

Init ==
    /\ hasMessage \in BOOLEAN
    /\ message \in (IF hasMessage THEN TutorMessages ELSE {<<>>})
    /\ speed \in {"undefined", "VITE", "APPROFONDIE"}
    /\ apiKey \in BOOLEAN
    /\ pc = "start"
    /\ raw1 = <<>>
    /\ raw2 = <<>>
    /\ text_fr = <<>>
    /\ json1 = NullString
    /\ graph = JsNull
    /\ graph0 = JsNull
    /\ calls = <<>>
    /\ pending = 0
    /\ log = <<>>
    /\ response = NoResponse
    /\ RagIdle
    /\ AuthIdle
    /\ ChatIdle
    /\ SignalsIdle

\* lines 393-395: chart synthesis, then the response
Finish(g, text, steps) ==
    /\ graph0' = g
    /\ graph' = ensureGenericChartsAlways(g, sp, message)
    /\ response' = OkResponse(text, graph')
    /\ log' = log \o steps \o <<"synthesize", "respond">>
    /\ pc' = "done"

\* lines 246-331: the checks, then the primary completion call is issued
Receive ==
    /\ pc = "start"
    /\ route = "tutor"
    /\ IF ~apiKey THEN
          /\ response' = ErrorResponse(500, "Missing OPENAI_API_KEY")
          /\ pc' = "done"
          /\ UNCHANGED <<calls, pending, log>>
       ELSE IF ~hasMessage \/ trim(message) = <<>> THEN
          /\ response' = ErrorResponse(400, "Empty message")
          /\ pc' = "done"
          /\ UNCHANGED <<calls, pending, log>>
       ELSE
          /\ calls' = Append(calls, [kind |-> "primary", json |-> <<>>])
          /\ pending' = pending + 1
          /\ log' = Append(log, "primary:call")
          /\ pc' = "awaitPrimary"
          /\ UNCHANGED response
    /\ UNCHANGED <<message, hasMessage, speed, apiKey, raw1, raw2, text_fr, json1, graph, graph0>>
    /\ UNCHANGED <<ragVars, authVars, chatVars, signals>>

\* lines 336-345: the first parse; graph stays null without a candidate or when it throws
firstParse(json) ==
    LET parsed == JSONparse(json.s)
    IN  IF ~json.null /\ json.s # <<>> /\ parsed.ok THEN parsed.value ELSE JsNull

\* if (graph === null)
needsRepairNullOnly(g) == g.kind = "null"

\* line 348: if (!graph)
needsRepair(g) == ~g.truthy

\* ${json1}
repairInputRaw(json) == json.s

\* line 368: ${json1 ?? "(vide)"}
repairInput(json) == IF json.null THEN <<"(vide)">> ELSE json.s

\* the second parse leaves the envelope null when it throws
secondParseNull(raw) ==
    LET parsed == JSONparse(trim(raw))
    IN  IF parsed.ok THEN parsed.value ELSE JsNull

\* lines 376-389: the second parse, and the placeholder when it throws
secondParse(raw) ==
    LET parsed == JSONparse(trim(raw))
    IN  IF parsed.ok THEN parsed.value ELSE Placeholder

\* lines 333-374 (and 393-395 when no repair is needed): the primary call returned raw
PrimaryReturns(raw) ==
    /\ pc = "awaitPrimary"
    /\ LET ex    == extractGraphJsonBlock(raw)
           g     == firstParse(ex.json)
           steps == <<"primary:return", "extract">>
                       \o (IF ~ex.json.null /\ ex.json.s # <<>> THEN <<"parse">> ELSE <<>>)
       IN  /\ raw1' = raw
           /\ text_fr' = ex.text
           /\ json1' = ex.json
           /\ IF needsRepair(g) THEN
                 /\ graph' = g
                 /\ calls' = Append(calls, [kind |-> "repair", json |-> repairInput(ex.json)])
                 /\ pending' = (pending - 1) + 1
                 /\ log' = log \o steps \o <<"repair:call">>
                 /\ pc' = "awaitRepair"
                 /\ UNCHANGED <<graph0, response>>
              ELSE
                 /\ pending' = pending - 1
                 /\ Finish(g, ex.text, steps)
                 /\ UNCHANGED calls
    /\ UNCHANGED <<message, hasMessage, speed, apiKey, raw2>>
    /\ UNCHANGED <<ragVars, authVars, chatVars, signals>>

\* line 325: the primary completion call throws; nothing catches it
PrimaryThrows ==
    /\ pc = "awaitPrimary"
    /\ pending' = pending - 1
    /\ response' = ErrorResponse(500, "unhandled")
    /\ log' = Append(log, "primary:throw")
    /\ pc' = "done"
    /\ UNCHANGED <<message, hasMessage, speed, apiKey, raw1, raw2, text_fr, json1, graph, graph0,
                   calls>>
    /\ UNCHANGED <<ragVars, authVars, chatVars, signals>>

\* a second repair call is issued when the repair response does not parse
RepairRetries(raw) ==
    /\ pc = "awaitRepair"
    /\ IF JSONparse(trim(raw)).ok THEN
          /\ pending' = pending - 1
          /\ Finish(secondParse(raw), text_fr, <<"repair:return", "parse">>)
          /\ UNCHANGED calls
       ELSE
          /\ calls' = Append(calls, [kind |-> "repair", json |-> repairInput(json1)])
          /\ log' = log \o <<"repair:return", "parse", "repair:call">>
          /\ UNCHANGED <<pending, pc, graph, graph0, response>>
    /\ raw2' = trim(raw)
    /\ UNCHANGED <<message, hasMessage, speed, apiKey, raw1, text_fr, json1>>
    /\ UNCHANGED <<ragVars, authVars, chatVars, signals>>

\* the output of the repair call returned as the narrative text
RepairReturnsItsText(raw) ==
    /\ pc = "awaitRepair"
    /\ pending' = pending - 1
    /\ Finish(secondParse(raw), trim(raw), <<"repair:return", "parse">>)
    /\ raw2' = trim(raw)
    /\ UNCHANGED <<message, hasMessage, speed, apiKey, raw1, text_fr, json1, calls>>
    /\ UNCHANGED <<ragVars, authVars, chatVars, signals>>

\* lines 376-395: the repair call returned raw
RepairReturns(raw) ==
    /\ pc = "awaitRepair"
    /\ pending' = pending - 1
    /\ Finish(secondParse(raw), text_fr, <<"repair:return", "parse">>)
    /\ raw2' = trim(raw)
    /\ UNCHANGED <<message, hasMessage, speed, apiKey, raw1, text_fr, json1, calls>>
    /\ UNCHANGED <<ragVars, authVars, chatVars, signals>>

\* line 371: the repair completion call throws; nothing catches it
RepairThrows ==
    /\ pc = "awaitRepair"
    /\ pending' = pending - 1
    /\ response' = ErrorResponse(500, "unhandled")
    /\ log' = Append(log, "repair:throw")
    /\ pc' = "done"
    /\ UNCHANGED <<message, hasMessage, speed, apiKey, raw1, raw2, text_fr, json1, graph, graph0,
                   calls>>
    /\ UNCHANGED <<ragVars, authVars, chatVars, signals>>

Next ==
    \/ Receive
    \/ pc = "awaitPrimary" /\ \E raw \in RawOutputs : PrimaryReturns(raw)
    \/ PrimaryThrows
    \/ pc = "awaitRepair" /\ \E raw \in RepairOutputs : RepairReturns(raw)
    \/ RepairThrows

Spec == Init /\ [][Next]_vars

(***************************************************************************)
(* ensureGenericChartsAlways as a function of its three arguments: every   *)
(* envelope, speed and question of the input sets, then one application.   *)
(***************************************************************************)
ChartsInputs ==
    { Undefined, NotAnArray, Array(<<>>), Array(<<ModelChart, TimelineChart>>) }

RecapInputs ==
    { NoRecap, [NoRecap EXCEPT !.k = "string"],
      RecapObject(Undefined, Undefined, "undefined"),
      RecapObject(Array(<<"a", "b", "c">>), Array(<<>>), "du modele"),
      ModelRecap }

Graphs ==
    { JsNull, JsPrimitive("number", TRUE), JsPrimitive("string", TRUE), JsArray }
      \cup { JsObject([NoProps EXCEPT !.charts = c, !.recap_table = r]) :
               c \in ChartsInputs, r \in RecapInputs }

SynthInit ==
    /\ message \in Messages
    /\ hasMessage = TRUE
    /\ speed \in {"undefined", "VITE", "APPROFONDIE"}
    /\ graph \in Graphs
    /\ pc = "synthesize"
    /\ apiKey = TRUE
    /\ raw1 = <<>>
    /\ raw2 = <<>>
    /\ text_fr = <<>>
    /\ json1 = NullString
    /\ graph0 = JsNull
    /\ calls = <<>>
    /\ pending = 0
    /\ log = <<>>
    /\ response = NoResponse
    /\ RagIdle
    /\ AuthIdle
    /\ ChatIdle
    /\ SignalsIdle

\* line 393: graph = ensureGenericChartsAlways(graph, sp, message)
Synthesize ==
    /\ pc = "synthesize"
    /\ graph0' = graph
    /\ graph' = ensureGenericChartsAlways(graph, sp, message)
    /\ pc' = "synthesized"
    /\ UNCHANGED <<message, hasMessage, speed, apiKey, raw1, raw2, text_fr, json1, calls, pending,
                   log, response>>
    /\ UNCHANGED <<ragVars, authVars, chatVars, signals>>

\* ensureGenericChartsAlways applied to its own result, same speed and question
Resynthesize ==
    /\ pc = "synthesized"
    /\ graph0' = graph
    /\ graph' = ensureGenericChartsAlways(graph, sp, message)
    /\ pc' = "resynthesized"
    /\ UNCHANGED <<message, hasMessage, speed, apiKey, raw1, raw2, text_fr, json1, calls, pending,
                   log, response>>
    /\ UNCHANGED <<ragVars, authVars, chatVars, signals>>

SynthNext == Synthesize \/ Resynthesize

SynthSpec == SynthInit /\ [][SynthNext]_vars

(***************************************************************************)
(* getSignals as a function of the text: every text of the input set,      *)
(* then one application.                                                    *)
(***************************************************************************)
\* words of a text given to getSignals
MaxSignalWords == 2

SignalWords ==
    { <<"F", "a", "r", "i", "n", "e">>, <<"v", "o", "ucirc", "t", "e">>, <<"euro">>,
      <<"U", "S", "P">>, <<"r", "u", "s", "h">>, <<"p", "i", "z", "z", "a">>,
      <<"o", "u">>, <<"W", " ", "3", "2", "0">>, <<"7", "2", " ", "H">>,
      <<"-", "1", "2", ",", "5", "0", "%">>, <<"0", "0", "7", ".", "0">>, <<"1", ".">>,
      <<LongRun>>, <<"-", "1", LongRun, ".", "5">>, <<"4", "8", "h">> }

\* the texts of at most n words, the words separated by one space
RECURSIVE SignalTexts(_)
SignalTexts(n) ==
    IF n = 0 THEN {<<>>}
    ELSE LET shorter == SignalTexts(n - 1)
         IN  shorter \cup {(IF q = <<>> THEN q ELSE q \o <<" ">>) \o w :
                             q \in shorter, w \in SignalWords}

SignalsInit ==
    /\ message \in SignalTexts(MaxSignalWords)
    /\ hasMessage = TRUE
    /\ signals = NoSignals
    /\ pc = "extract"
    /\ speed = "undefined"
    /\ apiKey = TRUE
    /\ raw1 = <<>>
    /\ raw2 = <<>>
    /\ text_fr = <<>>
    /\ json1 = NullString
    /\ graph = JsNull
    /\ graph0 = JsNull
    /\ calls = <<>>
    /\ pending = 0
    /\ log = <<>>
    /\ response = NoResponse
    /\ RagIdle
    /\ AuthIdle
    /\ ChatIdle

\* line 123: const { nums, hasVariables, isComparison, isProtocol, topic } = getSignals(message)
Extract ==
    /\ pc = "extract"
    /\ signals' = getSignals(message)
    /\ pc' = "extracted"
    /\ UNCHANGED <<message, hasMessage, speed, apiKey, raw1, raw2, text_fr, json1, graph, graph0,
                   calls, pending, log, response>>
    /\ UNCHANGED <<ragVars, authVars, chatVars>>

SignalsNext == Extract

SignalsSpec == SignalsInit /\ [][SignalsNext]_vars

(***************************************************************************)
(* The retrieval route, POST (src/unnamed/part_000:7-170), as a process    *)
(* that stops at each await of an upstream call.  A similarity is counted  *)
(* in hundredths: 20 is 0.2.                                                *)
(***************************************************************************)
\* the rows a similarity search may return
MaxMatches == 7

\* line 75: the floor 0.2, in hundredths
Threshold == 20

\* line 76: slice(0, 6)
TopK == 6

\* line 66: match_count: 6
match_count == 6

NoSimilarity == [k |-> "undefined", v |-> 0]

Similarity(n) == [k |-> "number", v |-> n]

\* row i of the result of match_chunks
Match(i, sim) == [similarity |-> sim, chunk_index |-> i, document_id |-> "doc", content |-> i]

\* m.similarity ?? 0
similarityOrZero(m) == IF m.similarity.k = "number" THEN m.similarity.v ELSE 0

\* the filter keeps the similarities above the floor only
aboveFloorStrictly(m) == similarityOrZero(m) > Threshold

\* line 75: (m.similarity ?? 0) >= 0.2
aboveFloor(m) == similarityOrZero(m) >= Threshold

\* lines 74-76: (matches ?? []).filter(...).slice(0, 6)
retrievedOf(data) ==
    slice(SelectSeq(IF data.null THEN <<>> ELSE data.rows, aboveFloor), TopK)

\* n.toFixed(2) of a number of hundredths
toFixed2(n) ==
    NatToString(n \div 100) \o <<".">> \o NatToString((n % 100) \div 10) \o NatToString(n % 10)

Excerpt(m, i) ==
    [kind |-> "excerpt", text |-> "EXTRAIT #", index |-> i,
     sim |-> toFixed2(similarityOrZero(m)), content |-> m.content]

Separator ==
    [kind |-> "separator", text |-> "\n\n---\n\n", index |-> 0, sim |-> <<>>, content |-> 0]

NoExcerpt ==
    [kind |-> "literal", text |-> "(Aucun extrait pertinent trouve dans les documents.)",
     index |-> 0, sim |-> <<>>, content |-> 0]

\* q.join(sep)
RECURSIVE join(_, _)
join(q, sep) ==
    IF Len(q) <= 1 THEN q
    ELSE join(SubSeq(q, 1, Len(q) - 1), sep) \o <<sep, q[Len(q)]>>

\* lines 78-86
retrievedContextOf(r) ==
    IF Len(r) > 0 THEN join([i \in 1..Len(r) |-> Excerpt(r[i], i)], Separator)
    ELSE <<NoExcerpt>>

\* the message of the request, not trimmed
ragMessageUntrimmed == IF hasMessage THEN message ELSE <<>>

\* lines 18 and 30: (body.message ?? "").trim()
ragMessage == IF hasMessage THEN trim(message) ELSE <<>>

\* lines 119-128, 131-139: the content of the user turn
userContent ==
    [excerpts |-> retrievedContext',
     context  |-> IF contextText = "undefined" THEN "(non fourni)" ELSE contextText,
     question |-> ragMessage,
     image    |-> imageDataUrl]

RagNoResponse ==
    [status |-> 0, error |-> "", answer_fr |-> <<>>, rag |-> [used |-> 0, top |-> <<>>],
     vision |-> [received_image |-> FALSE]]

RagErrorResponse(status, error) == [RagNoResponse EXCEPT !.status = status, !.error = error]

\* lines 149-162
RagOkResponse(out) ==
    [status |-> 200, error |-> "", answer_fr |-> out,
     rag |-> [used |-> Len(retrieved),
              top  |-> [i \in 1..Len(retrieved) |->
                          [similarity  |-> retrieved[i].similarity,
                           chunk_index |-> retrieved[i].chunk_index,
                           document_id |-> retrieved[i].document_id]]],
     vision |-> [received_image |-> imageDataUrl]]

Similarities == {NoSimilarity, Similarity(19), Similarity(20)}

RankedLists ==
    { <<Similarity(100), Similarity(85), Similarity(21), Similarity(0)>>,
      <<Similarity(20), Similarity(95)>> }

\* what the similarity search may return as data
MatchLists ==
    { [i \in 1..Len(q) |-> Match(i, q[i])] :
        q \in SeqsUpTo(Similarities, MaxMatches) \cup RankedLists }

RagMessages == { <<>>, <<" ">>, <<" ", "p", "i", "z", "z", "a", " ">> }

CompletionOutputs == { <<>>, <<"Bonjour">> }

\* the variables that the retrieval route leaves alone
nonRagVars == <<speed, raw1, raw2, text_fr, json1, graph, graph0, pending, authVars, chatVars,
               signals>>

request == <<route, message, hasMessage, apiKey, supabaseUrl, supabaseKey, contextText,
             imageDataUrl>>

RagInit ==
    /\ route = "retrieval"
    /\ hasMessage \in BOOLEAN
    /\ message \in (IF hasMessage THEN RagMessages ELSE {<<>>})
    /\ apiKey \in BOOLEAN
    /\ supabaseUrl \in BOOLEAN
    /\ supabaseKey \in BOOLEAN
    /\ contextText \in {"undefined", "pate collante"}
    /\ imageDataUrl \in BOOLEAN
    /\ pc = "start"
    /\ matches = NullRows
    /\ matchErr = FALSE
    /\ retrieved = <<>>
    /\ retrievedContext = <<>>
    /\ calls = <<>>
    /\ log = <<>>
    /\ response = RagNoResponse
    /\ speed = "undefined"
    /\ raw1 = <<>>
    /\ raw2 = <<>>
    /\ text_fr = <<>>
    /\ json1 = NullString
    /\ graph = JsNull
    /\ graph0 = JsNull
    /\ pending = 0
    /\ AuthIdle
    /\ ChatIdle
    /\ SignalsIdle

\* lines 163-169: the catch of the whole handler
RagCatch(step) ==
    /\ response' = RagErrorResponse(500, "Server error")
    /\ log' = Append(log, step)
    /\ pc' = "done"
    /\ UNCHANGED <<request, nonRagVars, matches, matchErr, retrieved, retrievedContext, calls>>

\* lines 9-61: the body, the checks, then the embedding call is issued
RagReceive ==
    /\ pc = "start"
    /\ route = "retrieval"
    /\ IF ~apiKey THEN
          /\ response' = RagErrorResponse(500, "Missing OPENAI_API_KEY")
          /\ pc' = "done"
          /\ UNCHANGED <<calls, log>>
       ELSE IF ~supabaseUrl \/ ~supabaseKey THEN
          /\ response' = RagErrorResponse(500, "Missing SUPABASE_URL or SUPABASE_SERVICE_ROLE_KEY")
          /\ pc' = "done"
          /\ UNCHANGED <<calls, log>>
       ELSE IF ragMessage = <<>> THEN
          /\ response' = RagErrorResponse(400, "Empty message")
          /\ pc' = "done"
          /\ UNCHANGED <<calls, log>>
       ELSE
          /\ calls' = Append(calls, [kind |-> "embedding", input |-> ragMessage])
          /\ log' = Append(log, "embedding:call")
          /\ pc' = "awaitEmbedding"
          /\ UNCHANGED response
    /\ UNCHANGED <<request, nonRagVars, matches, matchErr, retrieved, retrievedContext>>

\* lines 61-67: the embedding call returned; the similarity search is issued
EmbeddingReturns ==
    /\ pc = "awaitEmbedding"
    /\ calls' = Append(calls, [kind |-> "retrieval", input |-> match_count])
    /\ log' = log \o <<"embedding:return", "retrieval:call">>
    /\ pc' = "awaitRetrieval"
    /\ UNCHANGED <<request, nonRagVars, matches, matchErr, retrieved, retrievedContext, response>>

\* line 57: the embedding call throws
EmbeddingThrows ==
    /\ pc = "awaitEmbedding"
    /\ RagCatch("embedding:throw")

\* lines 64-147: the similarity search returned { data, error }; the prompt is
\* built and the completion call is issued
RetrievalReturns(data, err) ==
    /\ pc = "awaitRetrieval"
    /\ matches' = data
    /\ matchErr' = err
    /\ retrieved' = retrievedOf(data)
    /\ retrievedContext' = retrievedContextOf(retrieved')
    /\ calls' = Append(calls, [kind |-> "completion", input |-> userContent])
    /\ log' = log \o <<"retrieval:return", "completion:call">>
    /\ pc' = "awaitCompletion"
    /\ UNCHANGED <<request, nonRagVars, response>>

\* line 64: the similarity search throws
RetrievalThrows ==
    /\ pc = "awaitRetrieval"
    /\ RagCatch("retrieval:throw")

\* lines 149-162: the completion call returned; out is r.output_text ?? ""
CompletionReturns(out) ==
    /\ pc = "awaitCompletion"
    /\ response' = RagOkResponse(out)
    /\ log' = log \o <<"completion:return", "respond">>
    /\ pc' = "done"
    /\ UNCHANGED <<request, nonRagVars, matches, matchErr, retrieved, retrievedContext, calls>>

\* line 141: the completion call throws
CompletionThrows ==
    /\ pc = "awaitCompletion"
    /\ RagCatch("completion:throw")

RagNext ==
    \/ RagReceive
    \/ EmbeddingReturns
    \/ EmbeddingThrows
    \/ pc = "awaitRetrieval" /\ \E q \in MatchLists : RetrievalReturns(Rows(q), FALSE)
    \/ pc = "awaitRetrieval" /\ \E err \in BOOLEAN : RetrievalReturns(NullRows, err)
    \/ RetrievalThrows
    \/ pc = "awaitCompletion" /\ \E out \in CompletionOutputs : CompletionReturns(out)
    \/ CompletionThrows

RagSpec == RagInit /\ [][RagNext]_vars

(***************************************************************************)
(* The two server routes: a request goes to one of them.                    *)
(***************************************************************************)
ServerInit == Init \/ RagInit

ServerNext == Next \/ RagNext

ServerSpec == ServerInit /\ [][ServerNext]_vars

(***************************************************************************)
(* The authentication middleware (src/middleware.ts:12-32).  Base64 is     *)
(* computed on the character codes of printable ASCII.                      *)
(***************************************************************************)
\* the printable characters of ASCII, from code 32 to code 126 ("<bs>" is the
\* backslash, "<bt>" the backtick)
Ascii ==
    <<" ", "!", "\"", "#", "$", "%", "&", "'", "(", ")", "*", "+", ",", "-", ".", "/",
      "0", "1", "2", "3", "4", "5", "6", "7", "8", "9", ":", ";", "<", "=", ">", "?",
      "@", "A", "B", "C", "D", "E", "F", "G", "H", "I", "J", "K", "L", "M", "N", "O",
      "P", "Q", "R", "S", "T", "U", "V", "W", "X", "Y", "Z", "[", "<bs>", "]", "^", "_",
      "<bt>", "a", "b", "c", "d", "e", "f", "g", "h", "i", "j", "k", "l", "m", "n", "o",
      "p", "q", "r", "s", "t", "u", "v", "w", "x", "y", "z", "{", "|", "}", "~">>

charCodeAt(c) == 31 + (CHOOSE i \in 1..Len(Ascii) : Ascii[i] = c)

\* a byte outside printable ASCII is written "<np>"
fromCharCode(n) == IF n - 31 \in 1..Len(Ascii) THEN Ascii[n - 31] ELSE "<np>"

Base64Alphabet ==
    <<"A", "B", "C", "D", "E", "F", "G", "H", "I", "J", "K", "L", "M", "N", "O", "P",
      "Q", "R", "S", "T", "U", "V", "W", "X", "Y", "Z", "a", "b", "c", "d", "e", "f",
      "g", "h", "i", "j", "k", "l", "m", "n", "o", "p", "q", "r", "s", "t", "u", "v",
      "w", "x", "y", "z", "0", "1", "2", "3", "4", "5", "6", "7", "8", "9", "+", "/">>

sextet(c) == (CHOOSE i \in 1..Len(Base64Alphabet) : Base64Alphabet[i] = c) - 1

\* the Base64 text of a sequence of bytes, as the browser sends it
RECURSIVE base64Encode(_)
base64Encode(b) ==
    IF Len(b) = 0 THEN <<>>
    ELSE IF Len(b) = 1 THEN
        <<Base64Alphabet[(b[1] \div 4) + 1], Base64Alphabet[((b[1] % 4) * 16) + 1], "=", "=">>
    ELSE IF Len(b) = 2 THEN
        <<Base64Alphabet[(b[1] \div 4) + 1],
          Base64Alphabet[((b[1] % 4) * 16 + b[2] \div 16) + 1],
          Base64Alphabet[((b[2] % 16) * 4) + 1], "=">>
    ELSE
        <<Base64Alphabet[(b[1] \div 4) + 1],
          Base64Alphabet[((b[1] % 4) * 16 + b[2] \div 16) + 1],
          Base64Alphabet[((b[2] % 16) * 4 + b[3] \div 64) + 1],
          Base64Alphabet[(b[3] % 64) + 1]>>
            \o base64Encode(SubSeq(b, 4, Len(b)))

btoa(s) == base64Encode([i \in 1..Len(s) |-> charCodeAt(s[i])])

\* the bytes of a sequence of sextets; a last group of 2 or 3 sextets gives 1 or 2 bytes
RECURSIVE base64Bytes(_)
base64Bytes(x) ==
    IF Len(x) < 2 THEN <<>>
    ELSE LET b1 == x[1] * 4 + x[2] \div 16
         IN  IF Len(x) = 2 THEN <<b1>>
             ELSE LET b2 == (x[2] % 16) * 16 + x[3] \div 4
                  IN  IF Len(x) = 3 THEN <<b1, b2>>
                      ELSE <<b1, b2, (x[3] % 4) * 64 + x[4]>>
                               \o base64Bytes(SubSeq(x, 5, Len(x)))

\* the text before the first occurrence of the character sep (the whole text when none)
RECURSIVE before(_, _)
before(s, sep) ==
    IF s = <<>> \/ Head(s) = sep THEN <<>> ELSE <<Head(s)>> \o before(Tail(s), sep)

\* line 24: Buffer.from(encoded, "base64").toString("utf-8"); decoding stops at the padding
base64Decode(e) ==
    LET body  == before(e, "=")
        bytes == base64Bytes([i \in 1..Len(body) |-> sextet(body[i])])
    IN  [i \in 1..Len(bytes) |-> fromCharCode(bytes[i])]

\* s.split(sep) for a separator of one character
RECURSIVE split(_, _)
split(s, sep) ==
    LET first == before(s, sep)
    IN  IF Len(first) = Len(s) THEN <<s>>
        ELSE <<first>> \o split(SubSeq(s, Len(first) + 2, Len(s)), sep)

\* const [a, b] = pieces: element i, undefined beyond the last piece
piece(pieces, i) == IF i <= Len(pieces) THEN StringOf(pieces[i]) ELSE NullString

\* !v for a string that may be undefined
falsy(v) == v.null \/ v.s = <<>>

\* the password is everything after the first colon
credentialsAtFirstColon(decoded) ==
    LET user == before(decoded, ":")
    IN  <<StringOf(user),
          IF Len(user) = Len(decoded) THEN NullString
          ELSE StringOf(SubSeq(decoded, Len(user) + 2, Len(decoded)))>>

\* line 25: const [user, pass] = decoded.split(":")
credentials(decoded) ==
    LET pieces == split(decoded, ":")
    IN  <<piece(pieces, 1), piece(pieces, 2)>>

\* lines 13-31
middlewareResult(U, P, a) ==
    IF falsy(U) \/ falsy(P) THEN "401"
    ELSE IF falsy(a) THEN "401"
    ELSE LET pieces  == split(a.s, " ")
             scheme  == piece(pieces, 1)
             encoded == piece(pieces, 2)
         IN  IF scheme # StringOf(<<"B", "a", "s", "i", "c">>) \/ falsy(encoded) THEN "401"
             ELSE LET c == credentials(base64Decode(encoded.s))
                  IN  IF c[1] = U /\ c[2] = P THEN "next" ELSE "401"

\* the characters of the decoded credentials
MaxCredentials == 5

CredentialChars == {"u", "p", ":"}

Credentials == SeqsUpTo(CredentialChars, MaxCredentials)

Schemes ==
    { <<"B", "a", "s", "i", "c", " ">>, <<"B", "a", "s", "i", "c">>,
      <<"B", "a", "s", "i", "c", " ", " ">>, <<"b", "a", "s", "i", "c", " ">>,
      <<"B", "e", "a", "r", "e", "r", " ">> }

Headers ==
    {NullString, StringOf(<<>>)}
        \cup { StringOf(h \o btoa(c)) : h \in Schemes, c \in Credentials }
        \cup { StringOf(<<"B", "a", "s", "i", "c", " ">> \o btoa(c) \o <<" ", "x">>) :
                 c \in Credentials }

Users == { NullString, StringOf(<<>>), StringOf(<<"u">>) }

Passwords == { NullString, StringOf(<<>>), StringOf(<<"p">>), StringOf(<<"p", ":", "p">>) }

AuthInit ==
    /\ USER \in Users
    /\ PASS \in Passwords
    /\ auth \in Headers
    /\ outcome = ""
    /\ pc = "start"
    /\ route = "middleware"
    /\ message = <<>>
    /\ hasMessage = FALSE
    /\ apiKey = FALSE
    /\ supabaseUrl = FALSE
    /\ supabaseKey = FALSE
    /\ contextText = "undefined"
    /\ imageDataUrl = FALSE
    /\ matches = NullRows
    /\ matchErr = FALSE
    /\ retrieved = <<>>
    /\ retrievedContext = <<>>
    /\ calls = <<>>
    /\ log = <<>>
    /\ response = NoResponse
    /\ speed = "undefined"
    /\ raw1 = <<>>
    /\ raw2 = <<>>
    /\ text_fr = <<>>
    /\ json1 = NullString
    /\ graph = JsNull
    /\ graph0 = JsNull
    /\ pending = 0
    /\ ChatIdle
    /\ SignalsIdle

\* lines 12-32: the request is answered with the challenge or passed on
middleware ==
    /\ pc = "start"
    /\ route = "middleware"
    /\ outcome' = middlewareResult(USER, PASS, auth)
    /\ pc' = "done"
    /\ UNCHANGED <<USER, PASS, auth, ragVars, chatVars, signals>>
    /\ UNCHANGED <<message, hasMessage, speed, apiKey, raw1, raw2, text_fr, json1, graph,
                   graph0, calls, pending, log, response>>

AuthNext == middleware

AuthSpec == AuthInit /\ [][AuthNext]_vars

(***************************************************************************)
(* The chat page (src/unnamed/part_002:221-298; src/app/page.tsx:146-196   *)
(* is the same page without the photo).  An invocation of askTutor is a    *)
(* process that stops at its two awaits, fetch and res.json().              *)
(***************************************************************************)
\* the invocations of askTutor that send a request
MaxRequests == 2

ChatInputs == { <<>>, <<" ">>, <<" ", "4", "8", "h", " ">> }

UserMsg(text) == [role |-> "user", text |-> text, graph |-> JsNull]

\* line 279
TutorMsg(text, g) == [role |-> "ernesto", text |-> text, graph |-> g]

ErrorPrefix == <<"D", "e", "s", "o", "l", "e", " ", "-", " ", "e", "r", "r", "e", "u", "r", " ",
                 "t", "e", "c", "h", "n", "i", "q", "u", "e", " ", ":", " ">>

\* lines 282-289: err?.message ?? "Erreur inconnue"
ErrorMsg(err) ==
    TutorMsg(ErrorPrefix \o (IF err.null THEN <<"Erreur inconnue">> ELSE err.s), JsNull)

\* the body of a response, as res.json() yields it
Data(error, text, answer, g) ==
    [null |-> FALSE, error |-> error, text_fr |-> text, answer_fr |-> answer, graph |-> g]

NullData == [null |-> TRUE, error |-> NullString, text_fr |-> NullString,
             answer_fr |-> NullString, graph |-> JsNull]

\* line 273: data?.error ?? `Erreur serveur (${res.status})`
statusError(data, status) ==
    IF ~data.null /\ ~data.error.null THEN data.error
    ELSE StringOf(<<"Erreur serveur (">> \o NatToString(status) \o <<")">>)

\* line 276: data?.text_fr ?? data?.answer_fr ?? data?.text ?? ""
answerText(data) ==
    IF ~data.null /\ ~data.text_fr.null THEN data.text_fr.s
    ELSE IF ~data.null /\ ~data.answer_fr.null THEN data.answer_fr.s
    ELSE <<>>

\* what fetch may resolve with
Responses == { [ok |-> TRUE, status |-> 200], [ok |-> FALSE, status |-> 500] }

\* what res.json() may resolve with
Bodies ==
    { NullData,
      Data(NullString, StringOf(<<"Bonjour">>), NullString, Placeholder),
      Data(NullString, NullString, StringOf(<<"Salut">>), JsNull),
      Data(StringOf(<<"Server error">>), NullString, NullString, JsNull) }

\* the reasons fetch and res.json() may reject with
Rejections == { NullString, StringOf(<<"Failed to fetch">>) }

NoRes == [ok |-> FALSE, status |-> 0]

\* an invocation of askTutor that returned: only how it ended is kept
Ended(stage) == [stage |-> stage, res |-> NoRes, image |-> FALSE]

PageInit ==
    /\ route = "page"
    /\ pc = "page"
    /\ message = <<>>
    /\ speed = "VITE"
    /\ chat = <<>>
    /\ loading = FALSE
    /\ rendered = FALSE
    /\ selectedImage = FALSE
    /\ requests = <<>>
    /\ log = <<>>
    /\ hasMessage = FALSE
    /\ apiKey = FALSE
    /\ supabaseUrl = FALSE
    /\ supabaseKey = FALSE
    /\ contextText = "undefined"
    /\ imageDataUrl = FALSE
    /\ matches = NullRows
    /\ matchErr = FALSE
    /\ retrieved = <<>>
    /\ retrievedContext = <<>>
    /\ calls = <<>>
    /\ response = NoResponse
    /\ raw1 = <<>>
    /\ raw2 = <<>>
    /\ text_fr = <<>>
    /\ json1 = NullString
    /\ graph = JsNull
    /\ graph0 = JsNull
    /\ pending = 0
    /\ AuthIdle
    /\ SignalsIdle

\* the page with no dictation
ChatInit == PageInit /\ DictIdle

\* the variables that the conversation of the chat page leaves alone
nonChatVars ==
    <<route, pc, hasMessage, apiKey, supabaseUrl, supabaseKey, contextText, imageDataUrl,
      matches, matchErr, retrieved, retrievedContext, calls, response, raw1, raw2, text_fr,
      json1, graph, graph0, pending, authVars, signals, dictVars>>

\* line 566: onChange of the text area (and the quick cards, line 430)
setMessage(text) ==
    /\ route = "page"
    /\ message' = text
    /\ UNCHANGED <<speed, chat, loading, selectedImage, requests, rendered, log, nonChatVars>>

\* lines 504, 532-534: a photo is attached or removed
setSelectedImage(file) ==
    /\ route = "page"
    /\ selectedImage' = file
    /\ UNCHANGED <<message, speed, chat, loading, requests, rendered, log, nonChatVars>>

\* lines 239-269: askTutor(message) up to its fetch; nothing happens when the
\* text is empty or when loading, a constant of the render that made the
\* handler (line 223), is true
askTutor ==
    /\ route = "page"
    /\ Len(requests) < MaxRequests
    /\ trim(message) # <<>>
    /\ ~rendered
    /\ chat' = Append(chat, UserMsg(trim(message)))
    /\ loading' = TRUE
    /\ requests' = Append(requests, [stage |-> "fetch", res |-> NoRes, image |-> selectedImage])
    /\ UNCHANGED <<message, speed, selectedImage, rendered, log, nonChatVars>>

\* the catch block without the finally block
failKeepsLoading(r, err) ==
    /\ chat' = Append(chat, ErrorMsg(err))
    /\ loading' = loading
    /\ requests' = [requests EXCEPT ![r] = Ended("failed")]
    /\ UNCHANGED <<message, speed, rendered, log, nonChatVars>>

\* lines 281-292: the catch and finally blocks
fail(r, err) ==
    /\ chat' = Append(chat, ErrorMsg(err))
    /\ loading' = FALSE
    /\ requests' = [requests EXCEPT ![r] = Ended("failed")]
    /\ UNCHANGED <<message, speed, rendered, log, nonChatVars>>

\* lines 257-258, 261: fetch resolved with a response
FetchResolves(r, resp) ==
    /\ requests[r].stage = "fetch"
    /\ requests' = [requests EXCEPT ![r].stage = "json", ![r].res = resp]
    /\ selectedImage' = IF requests[r].image THEN FALSE ELSE selectedImage
    /\ UNCHANGED <<message, speed, chat, loading, rendered, log, nonChatVars>>

\* lines 257, 261: fetch rejected (network failure)
FetchRejects(r, err) ==
    /\ requests[r].stage = "fetch"
    /\ fail(r, err)
    /\ UNCHANGED selectedImage

\* lines 272-280: the body was read
JsonResolves(r, data) ==
    /\ requests[r].stage = "json"
    /\ IF ~requests[r].res.ok THEN
          /\ fail(r, statusError(data, requests[r].res.status))
          /\ UNCHANGED selectedImage
       ELSE
          /\ chat' = Append(chat, TutorMsg(answerText(data),
                                           IF data.null THEN JsNull ELSE data.graph))
          /\ message' = <<>>
          /\ loading' = FALSE
          /\ requests' = [requests EXCEPT ![r] = Ended("answered")]
          /\ UNCHANGED <<speed, selectedImage, rendered, log, nonChatVars>>

\* line 272: the body cannot be read
JsonRejects(r, err) ==
    /\ requests[r].stage = "json"
    /\ fail(r, err)
    /\ UNCHANGED selectedImage

\* lines 295-299
newConversation ==
    /\ route = "page"
    /\ chat' = <<>>
    /\ message' = <<>>
    /\ selectedImage' = FALSE
    /\ UNCHANGED <<speed, loading, requests, rendered, log, nonChatVars>>

\* the page renders again after setLoading: its handlers see the new loading
render ==
    /\ route = "page"
    /\ rendered # loading
    /\ rendered' = loading
    /\ UNCHANGED <<message, speed, chat, loading, selectedImage, requests, log, nonChatVars>>

ChatNext ==
    \/ \E text \in ChatInputs : setMessage(text)
    \/ \E file \in BOOLEAN : setSelectedImage(file)
    \/ askTutor
    \/ \E r \in 1..Len(requests), resp \in Responses : FetchResolves(r, resp)
    \/ \E r \in 1..Len(requests), err \in Rejections : FetchRejects(r, err)
    \/ \E r \in 1..Len(requests), data \in Bodies : JsonResolves(r, data)
    \/ \E r \in 1..Len(requests), err \in Rejections : JsonRejects(r, err)
    \/ newConversation
    \/ render

ChatSpec == ChatInit /\ [][ChatNext]_vars

(***************************************************************************)
(* The dictation of the chat page (src/unnamed/part_002:168-187, 306-332). *)
(* A session is one SpeechRecognition object: it runs from rec.start()     *)
(* until rec.stop() or until it ends by itself (continuous = false).  Each *)
(* session that starts schedules one timer of 12 seconds; equal delays     *)
(* expire in the order they were scheduled.  The page is taken to have     *)
(* rendered between two clicks on the microphone.                           *)
(***************************************************************************)
\* the sessions one page may start
MaxSessions == 3

\* the characters the text area may hold
MaxDictated == 3

\* what a result of the recognition may carry, trimmed
Transcripts == { <<>>, <<"p">> }

Session ==
    [running |-> TRUE, timer |-> "pending", stoppedBy |-> "none", stopper |-> 0]

\* stopDictRef.current?.() called by the cause why, on behalf of the timer k
stopCurrent(why, k) ==
    IF stopDictRef # 0 /\ sessions[stopDictRef].running
    THEN [sessions EXCEPT ![stopDictRef].running = FALSE,
                          ![stopDictRef].stoppedBy = why,
                          ![stopDictRef].stopper = k]
    ELSE sessions

\* the variables that the dictation leaves alone
nonDictVars ==
    <<route, pc, hasMessage, apiKey, supabaseUrl, supabaseKey, contextText, imageDataUrl,
      matches, matchErr, retrieved, retrievedContext, calls, response, raw1, raw2, text_fr,
      json1, graph, graph0, pending, authVars, signals, speed, chat, loading, rendered,
      selectedImage, requests>>

DictInit ==
    /\ PageInit
    /\ dictating = FALSE
    /\ stopDictRef = 0
    /\ sessions = <<>>
    /\ supported \in BOOLEAN

\* lines 306-332: a click on the microphone
toggleDictation ==
    /\ route = "page"
    /\ IF dictating THEN
          /\ sessions' = stopCurrent("user", 0)
          /\ stopDictRef' = 0
          /\ dictating' = FALSE
          /\ UNCHANGED log
       ELSE IF ~supported THEN
          /\ Len(log) < MaxSessions
          /\ log' = Append(log, "alert")
          /\ UNCHANGED <<sessions, stopDictRef, dictating>>
       ELSE
          /\ Len(sessions) < MaxSessions
          /\ sessions' = Append(sessions, Session)
          /\ stopDictRef' = Len(sessions) + 1
          /\ dictating' = TRUE
          /\ UNCHANGED log
    /\ UNCHANGED <<supported, message, nonDictVars>>

\* lines 327-331: the timer that the session k scheduled expires
timeout(k) ==
    /\ k \in 1..Len(sessions)
    /\ sessions[k].timer = "pending"
    /\ \A j \in 1..(k - 1) : sessions[j].timer = "fired"
    /\ sessions' = [stopCurrent("timeout", k) EXCEPT ![k].timer = "fired"]
    /\ stopDictRef' = 0
    /\ dictating' = FALSE
    /\ UNCHANGED <<supported, message, log, nonDictVars>>

\* lines 177-183, 314-317: a result of the session n
onresult(n, txt) ==
    /\ n \in 1..Len(sessions)
    /\ sessions[n].running
    /\ Len(message) + Len(txt) < MaxDictated
    /\ message' = IF txt = <<>> THEN message
                  ELSE IF message # <<>> THEN message \o <<" ">> \o txt
                  ELSE txt
    /\ UNCHANGED <<dictVars, log, nonDictVars>>

\* line 175: continuous = false, the session n ends by itself after an utterance
onend(n) ==
    /\ n \in 1..Len(sessions)
    /\ sessions[n].running
    /\ sessions' = [sessions EXCEPT ![n].running = FALSE, ![n].stoppedBy = "ended"]
    /\ UNCHANGED <<dictating, stopDictRef, supported, message, log, nonDictVars>>

DictNext ==
    \/ toggleDictation
    \/ \E k \in 1..Len(sessions) : timeout(k)
    \/ \E n \in 1..Len(sessions), txt \in Transcripts : onresult(n, txt)
    \/ \E n \in 1..Len(sessions) : onend(n)

DictSpec == DictInit /\ [][DictNext]_vars

(***************************************************************************)
(* Vocabulary of the properties.                                            *)
(***************************************************************************)
\* the charts list of an envelope (empty when absent or not a sequence)
ChartsOf(g) == IF isArray(g.props.charts) THEN g.props.charts.v ELSE <<>>

ChartTypes(g) == [i \in 1..Len(ChartsOf(g)) |-> ChartsOf(g)[i].type]

\* an envelope in the sense of the data model: a plain object
IsEnvelope(g) == g.kind = "object"

\* the signals of the question of the request
Sig == getSignals(message)

Triggered == Sig.hasVariables \/ Sig.isComparison \/ Sig.isProtocol

Minutes(chart) == [i \in 1..Len(chart.data.steps) |-> chart.data.steps[i].minutes]

RECURSIVE Sum(_)
Sum(q) == IF q = <<>> THEN 0 ELSE Head(q) + Sum(Tail(q))

PointsX(chart) == [i \in 1..Len(chart.data.points) |-> chart.data.points[i].x]

PointsY(chart) == [i \in 1..Len(chart.data.points) |-> chart.data.points[i].y]

PointsLabel(chart) == [i \in 1..Len(chart.data.points) |-> chart.data.points[i].label]

Range(q) == {q[i] : i \in 1..Len(q)}

Smaller(a, b) == IF a < b THEN a ELSE b

\* ensureGenericChartsAlways was applied in deep mode to an envelope without charts
SynthesizedDeepNoCharts ==
    /\ pc = "synthesized"
    /\ sp = "APPROFONDIE"
    /\ IsEnvelope(graph0)
    /\ ChartsOf(graph0) = <<>>

(***************************************************************************)
(* C1. In deep mode, when the question yields hasVariables, isComparison   *)
(* or isProtocol, the envelope returned to the caller has a non-empty      *)
(* charts list, whatever the primary and the repair responses were.        *)
(***************************************************************************)
C1_DeepAnswerHasCharts ==
    (pc = "done" /\ response.status = 200 /\ sp = "APPROFONDIE" /\ Triggered)
        => Len(ChartsOf(response.graph)) > 0

(***************************************************************************)
(* C2. For the question "Comparer W260 vs W320 pour fermentation 48h au    *)
(* froid" in deep mode and an envelope without charts: topic farines,      *)
(* isComparison, isProtocol.  As claimed, exactly three charts: radar      *)
(* (farines preset), timeline (5 fixed steps), bar (W260/W320, 60/78).     *)
(***************************************************************************)
C2_ScenarioCommon ==
    LET c == ChartsOf(graph)
    IN  /\ Sig.topic = "farines"
        /\ Sig.isComparison
        /\ Sig.isProtocol
        /\ Len(c) >= 3
        /\ c[1].type = "radar"
        /\ c[1].data.labels = <<"Force (W)", "Tolerance froid", "Extensibilite",
                                "Absorption", "Regularite", "Risques (tenace)">>
        /\ c[1].data.values = <<70, 75, 60, 65, 70, 55>>
        /\ c[2].type = "timeline"
        /\ Minutes(c[2]) = <<15, 60, 10, 2880, 120>>
        /\ c[3].type = "bar"
        /\ c[3].data.labels = <<"Option A (W260)", "Option B (W320)">>
        /\ c[3].data.values = <<60, 78>>

\* C2 as claimed: the scenario yields exactly these three charts and no other
C2_ScenarioThreeCharts ==
    (SynthesizedDeepNoCharts /\ message = Scenario)
        => (C2_ScenarioCommon /\ Len(ChartsOf(graph)) = 3)

\* C2 as amended: the three charts are followed by a fourth, the scatter chart of
\* the three numbers of the question (260, 320, 48), and by no other chart.
C2_ScenarioFourCharts ==
    (SynthesizedDeepNoCharts /\ message = Scenario)
        => /\ C2_ScenarioCommon
           /\ ChartTypes(graph) = <<"radar", "timeline", "bar", "scatter">>
           /\ PointsLabel(ChartsOf(graph)[4]) =
                 << <<"2", "6", "0">>, <<"3", "2", "0">>, <<"4", "8">> >>
           /\ PointsY(ChartsOf(graph)[4]) = <<55, 61, 67>>

C2_Witness ==
    /\ SynthesizedDeepNoCharts
    /\ message = Scenario
    /\ Len(ChartsOf(graph)) = 4

(***************************************************************************)
(* C3. An envelope whose charts list is already non-empty keeps it         *)
(* unchanged (same charts, same order), in both modes, for every question. *)
(***************************************************************************)
C3_ModelChartsKept ==
    (pc = "synthesized" /\ Len(ChartsOf(graph0)) > 0)
        => /\ isArray(graph.props.charts)
           /\ graph.props.charts.v = graph0.props.charts.v

C3_Witness ==
    /\ pc = "synthesized"
    /\ sp = "APPROFONDIE"
    /\ Triggered
    /\ Len(ChartsOf(graph0)) = 2
    /\ ChartsOf(graph) = ChartsOf(graph0)

(***************************************************************************)
(* C4. In quick mode (VITE, also the mode of a request without speed)      *)
(* synthesis never adds a chart: the charts list has the same elements     *)
(* after as before (empty if it was absent or not a sequence), whatever    *)
(* the signals.                                                             *)
(***************************************************************************)
C4_QuickAddsNoChart ==
    (pc = "synthesized" /\ speed \in {"undefined", "VITE"})
        => /\ ChartsOf(graph) = ChartsOf(graph0)
           /\ IsEnvelope(graph0) => isArray(graph.props.charts)

C4_Witness ==
    /\ pc = "synthesized"
    /\ speed = "undefined"
    /\ Sig.hasVariables /\ Sig.isComparison /\ Sig.isProtocol
    /\ IsEnvelope(graph0)
    /\ ~isArray(graph0.props.charts)
    /\ graph.props.charts = Array(<<>>)

(***************************************************************************)
(* C5. In deep mode, for an envelope without charts and a text with at     *)
(* least 2 distinct numbers and no protocol and no comparison language:    *)
(* as claimed, exactly a radar chart then a scatter chart, the scatter     *)
(* chart having min(d, 6) points, one per distinct number of the text.     *)
(***************************************************************************)
DistinctNumbers == Range(Sig.nums)

FirstSixNumbers == Range(slice(Sig.nums, 6))

C5_Case ==
    /\ SynthesizedDeepNoCharts
    /\ Cardinality(DistinctNumbers) >= 2
    /\ ~Sig.isProtocol
    /\ ~Sig.isComparison

\* C5 as claimed: radar then scatter, with min(d, 6) points for d distinct numbers
C5_RadarThenScatterOfAllNumbers ==
    C5_Case
        => /\ ChartTypes(graph) = <<"radar", "scatter">>
           /\ Len(ChartsOf(graph)[2].data.points) = Smaller(Cardinality(DistinctNumbers), 6)
           /\ Range(PointsX(ChartsOf(graph)[2])) \subseteq DistinctNumbers

\* C5 as amended: the text must also carry a unit marker (hasVariables), and the
\* scatter chart has one point per distinct value among the first 6 numbers of the
\* text (between 1 and 6 points), in order of first occurrence.
C5_RadarThenScatterOfFirstSix ==
    (C5_Case /\ Sig.hasVariables)
        => /\ ChartTypes(graph) = <<"radar", "scatter">>
           /\ PointsX(ChartsOf(graph)[2]) = Unique(slice(Sig.nums, 6))
           /\ Len(ChartsOf(graph)[2].data.points) = Cardinality(FirstSixNumbers)
           /\ Len(ChartsOf(graph)[2].data.points) \in 1..6

C5_Witness ==
    /\ C5_Case
    /\ Sig.hasVariables
    /\ Len(Sig.nums) > 6
    /\ ChartTypes(graph) = <<"radar", "scatter">>
    /\ Len(ChartsOf(graph)[2].data.points) < Smaller(Cardinality(DistinctNumbers), 6)

(***************************************************************************)
(* C6. In deep mode, for an envelope without charts and a text with        *)
(* protocol language, the second chart is a timeline chart of exactly 5    *)
(* steps of 15, 60, 10, 2880 and 120 minutes, 3085 minutes in all.         *)
(***************************************************************************)
C6_TimelineSecond ==
    (SynthesizedDeepNoCharts /\ Sig.isProtocol)
        => /\ Len(ChartsOf(graph)) >= 2
           /\ ChartsOf(graph)[2].type = "timeline"
           /\ Minutes(ChartsOf(graph)[2]) = <<15, 60, 10, 2880, 120>>
           /\ Sum(Minutes(ChartsOf(graph)[2])) = 3085

C6_Witness ==
    /\ SynthesizedDeepNoCharts
    /\ message = <<"4", "8", "h", " ", "f", "r", "i", "g", "o">>
    /\ Sig.isProtocol
    /\ ChartTypes(graph) = <<"radar", "timeline">>

(***************************************************************************)
(* Vocabulary of the properties of the route.                               *)
(***************************************************************************)
\* the primary completion call has returned and its output was processed
PrimaryReturned == Len(log) >= 2 /\ log[2] = "primary:return"

\* raw1[i] and raw1[j] are an opening and a later closing marker that enclose
\* the text of a valid JSON object
ValidObjectBlock(i, j) ==
    /\ i < j
    /\ raw1[i] \in OpenMarkers
    /\ raw1[j] \in CloseMarkers
    /\ LET r == JSONparse(SubSeq(raw1, i + 1, j - 1))
       IN  r.ok /\ r.value.kind = "object"

\* the block is the first of the text and its JSON holds no closing marker
FirstCleanBlock(i, j) ==
    /\ \A k \in 1..(i - 1) : raw1[k] \notin OpenMarkers
    /\ \A k \in (i + 1)..(j - 1) : raw1[k] \notin CloseMarkers

RoundTrip(i, j) ==
    /\ text_fr = trim(SubSeq(raw1, 1, i - 1) \o SubSeq(raw1, j + 1, Len(raw1)))
    /\ pc = "done"
    /\ graph0 = JSONparse(SubSeq(raw1, i + 1, j - 1)).value
    /\ Len(calls) = 1

\* no opening marker of raw1 is followed by a closing marker
NoBlock ==
    ~ \E i, j \in 1..Len(raw1) :
         i < j /\ raw1[i] \in OpenMarkers /\ raw1[j] \in CloseMarkers

CallSteps == {"primary:call", "repair:call"}

EndSteps == {"primary:return", "primary:throw", "repair:return", "repair:throw"}

\* the number of steps of S among the first n steps of the log
CountBefore(S, n) == Cardinality({k \in 1..n : log[k] \in S})

CandidateParses == ~json1.null /\ JSONparse(json1.s).ok

RepairIssued == \E k \in 1..Len(calls) : calls[k].kind = "repair"

(***************************************************************************)
(* C7. Round trip of extraction, as claimed: for any valid JSON object     *)
(* between the markers inside arbitrary prose, the narrative text is the   *)
(* prose without the block, trimmed, the envelope before chart synthesis   *)
(* is the parsed object, and no repair call is made.                        *)
(***************************************************************************)
C7_RoundTripAnyBlock ==
    PrimaryReturned
        => \A i, j \in 1..Len(raw1) : ValidObjectBlock(i, j) => RoundTrip(i, j)

\* C7 as amended: the same, for a block that no opening marker precedes in the
\* prose and whose JSON text contains no closing marker.
C7_RoundTripFirstCleanBlock ==
    PrimaryReturned
        => \A i, j \in 1..Len(raw1) :
              (ValidObjectBlock(i, j) /\ FirstCleanBlock(i, j)) => RoundTrip(i, j)

C7_Witness ==
    /\ pc = "done"
    /\ \E i, j \in 2..(Len(raw1) - 1) :
          /\ ValidObjectBlock(i, j)
          /\ FirstCleanBlock(i, j)
          /\ raw1[i + 1] = "\n"
          /\ raw1[1] = "Bonjour"
          /\ raw1[Len(raw1)] = " "
    /\ text_fr = <<"Bonjour">>
    /\ Len(calls) = 1

(***************************************************************************)
(* C8. When the raw output holds no delimited block, the narrative text is *)
(* the whole output trimmed, the candidate is null, and exactly one repair *)
(* call is issued, with the literal "(vide)" as the JSON to repair.        *)
(***************************************************************************)
C8_NoBlockRepairsVide ==
    (PrimaryReturned /\ NoBlock)
        => /\ text_fr = trim(raw1)
           /\ json1.null
           /\ Len(calls) = 2
           /\ calls[2] = [kind |-> "repair", json |-> <<"(vide)">>]

C8_Witness ==
    /\ pc = "awaitRepair"
    /\ NoBlock
    /\ raw1 = <<"<GRAPH_JSON>">>
    /\ text_fr = raw1
    /\ calls[2].json = <<"(vide)">>

(***************************************************************************)
(* C9. At most two completion calls per request, the primary call and at   *)
(* most one repair call, never in flight together; the repair call is      *)
(* issued after the primary call returned and extraction was done; chart   *)
(* synthesis starts after the last call returned; no call follows it.      *)
(***************************************************************************)
C9_AtMostTwoSequentialCalls ==
    /\ Len(calls) <= 2
    /\ \A k \in 1..Len(calls) : calls[k].kind = (IF k = 1 THEN "primary" ELSE "repair")
    /\ pending \in {0, 1}
    /\ pending = CountBefore(CallSteps, Len(log)) - CountBefore(EndSteps, Len(log))
    /\ Len(calls) = CountBefore(CallSteps, Len(log))
    /\ \A k \in 1..Len(log) :
          /\ log[k] \in CallSteps
                => CountBefore(CallSteps, k - 1) = CountBefore(EndSteps, k - 1)
          /\ log[k] = "repair:call"
                => \E a, b \in 1..(k - 1) :
                      a < b /\ log[a] = "primary:return" /\ log[b] = "extract"
          /\ log[k] = "synthesize"
                => /\ CountBefore(CallSteps, k) = CountBefore(EndSteps, k)
                   /\ \A m \in (k + 1)..Len(log) : log[m] \notin CallSteps

C9_Witness ==
    /\ pc = "done"
    /\ response.status = 200
    /\ Len(calls) = 2
    /\ graph0 = Placeholder
    /\ log = <<"primary:call", "primary:return", "extract", "parse", "repair:call",
               "repair:return", "parse", "synthesize", "respond">>

(***************************************************************************)
(* C10. As claimed: the repair call is issued if and only if the candidate *)
(* is missing or fails JSON parsing; a candidate that parses, whatever its *)
(* value, is the envelope and no repair call is made.                       *)
(***************************************************************************)
C10_RepairIffMissingOrUnparsable ==
    PrimaryReturned
        => /\ RepairIssued <=> ~CandidateParses
           /\ CandidateParses => (pc = "done" /\ graph0 = JSONparse(json1.s).value)

\* C10 as amended: the repair call is issued if and only if the candidate is
\* missing, fails JSON parsing, or parses to a falsy value (null, 0, false, "");
\* a candidate that parses to any other value is the envelope, without repair.
C10_RepairIffNoTruthyValue ==
    PrimaryReturned
        => /\ RepairIssued <=> (~CandidateParses \/ ~JSONparse(json1.s).value.truthy)
           /\ (CandidateParses /\ JSONparse(json1.s).value.truthy)
                 => (pc = "done" /\ graph0 = JSONparse(json1.s).value)

C10_Witness ==
    /\ pc = "awaitRepair"
    /\ CandidateParses
    /\ JSONparse(json1.s).value = JsPrimitive("number", FALSE)
    /\ RepairIssued
    /\ calls[2].json = <<"0">>

(***************************************************************************)
(* C11. When the candidate of the primary response fails JSON parsing and  *)
(* the repair response fails it too, the request ends normally: the        *)
(* envelope handed to chart synthesis is the fixed placeholder, and the    *)
(* caller receives status 200 with the narrative text of the primary       *)
(* response and the synthesized placeholder.                                *)
(***************************************************************************)
RepairReturned == \E k \in 1..Len(log) : log[k] = "repair:return"

CandidateFails == ~json1.null /\ ~JSONparse(json1.s).ok

C11_BothParsesFailPlaceholder ==
    (RepairReturned /\ CandidateFails /\ ~JSONparse(raw2).ok)
        => /\ pc = "done"
           /\ response.status = 200
           /\ response.error = ""
           /\ response.text_fr = extractGraphJsonBlock(raw1).text
           /\ graph0.kind = "object"
           /\ graph0.props.title = "Synthese"
           /\ graph0.props.confidence = 40
           /\ graph0.props.charts = Array(<<>>)
           /\ graph0.props.checklist = Array(<<>>)
           /\ graph0.props.questions = Array(<<>>)
           /\ graph0.props.recap_table.columns = Array(<<"Levier", "Action", "Indicateur">>)
           /\ graph0.props.recap_table.rows = Array(<<>>)
           /\ graph0.props.recap_table.note = "JSON non recuperable."
           /\ response.graph = Serialize(ensureGenericChartsAlways(graph0, sp, message))

C11_Witness ==
    /\ pc = "done"
    /\ CandidateFails
    /\ json1 = StringOf(<<"{oops">>)
    /\ raw2 = <<"{oops">>
    /\ graph0 = Placeholder
    /\ response.status = 200
    /\ response.text_fr = <<"Bonjour">>

(***************************************************************************)
(* C12. A request ends in an error only when the key is missing, the       *)
(* question is empty or missing, or the primary completion call fails;     *)
(* once the primary call has returned, the caller receives status 200 with *)
(* the narrative text and an envelope, whatever fails afterwards.          *)
(***************************************************************************)
PrimaryFailed == log # <<>> /\ log[Len(log)] = "primary:throw"

C12_ErrorsOnlyUpToPrimary ==
    pc = "done"
        => /\ response.status # 200
                 => (~apiKey \/ ~hasMessage \/ trim(message) = <<>> \/ PrimaryFailed)
           /\ PrimaryReturned
                 => /\ response.status = 200
                    /\ response.text_fr = extractGraphJsonBlock(raw1).text
                    /\ response.graph = Serialize(graph)

(***************************************************************************)
(* C13. In both routes, a request with a required secret absent ends with  *)
(* status 500, and a request (with its secrets present) whose question is  *)
(* empty, whitespace-only or missing ends with status 400; in both cases   *)
(* no embedding, retrieval or completion call is ever issued.               *)
(***************************************************************************)
SecretMissing == ~apiKey \/ (route = "retrieval" /\ (~supabaseUrl \/ ~supabaseKey))

QuestionEmpty == ~hasMessage \/ trim(message) = <<>>

C13_ChecksPrecedeUpstreamCalls ==
    /\ (SecretMissing \/ QuestionEmpty)
          => /\ calls = <<>>
             /\ log = <<>>
             /\ pc \in {"start", "done"}
    /\ (pc = "done" /\ SecretMissing) => response.status = 500
    /\ (pc = "done" /\ ~SecretMissing /\ QuestionEmpty) => response.status = 400

C13_Witness ==
    /\ route = "retrieval"
    /\ pc = "done"
    /\ apiKey /\ supabaseUrl /\ supabaseKey
    /\ hasMessage
    /\ message = <<" ">>
    /\ response.status = 400
    /\ calls = <<>>

(***************************************************************************)
(* C14. In the retrieval route, the passages of the prompt are the         *)
(* returned matches whose similarity is at least 0.2 (none counts as 0),   *)
(* in the order returned, the first 6 at most; the used count of the       *)
(* response equals the length of its top list and the number of excerpts   *)
(* of the prompt; when no match is kept the excerpt section is the literal *)
(* "(Aucun extrait pertinent trouve dans les documents.)" and the used     *)
(* count is 0.                                                              *)
(***************************************************************************)
RetrievalReturned == \E k \in 1..Len(log) : log[k] = "retrieval:return"

ReturnedRows == IF matches.null THEN <<>> ELSE matches.rows

\* the positions of the returned rows whose similarity is a number >= 0.2
Relevant ==
    { i \in 1..Len(ReturnedRows) :
        ReturnedRows[i].similarity.k = "number" /\ ReturnedRows[i].similarity.v >= 20 }

\* the 6 first of them
Kept == { i \in Relevant : Cardinality({k \in Relevant : k < i}) < 6 }

\* the excerpt section of the prompt of the completion call
PromptExcerpts == calls[3].input.excerpts

ExcerptsOfPrompt == SelectSeq(PromptExcerpts, LAMBDA u : u.kind = "excerpt")

C14_PassagesAboveFloorAtMostSix ==
    RetrievalReturned
        => /\ Len(retrieved) <= 6
           /\ Len(retrieved) = Cardinality(Kept)
           /\ \A j \in 1..Len(retrieved) :
                 /\ retrieved[j].chunk_index \in Kept
                 /\ retrieved[j] = ReturnedRows[retrieved[j].chunk_index]
                 /\ j > 1 => retrieved[j - 1].chunk_index < retrieved[j].chunk_index
           /\ Len(calls) = 3
           /\ calls[3].kind = "completion"
           /\ Len(ExcerptsOfPrompt) = Len(retrieved)
           /\ \A j \in 1..Len(retrieved) :
                 /\ ExcerptsOfPrompt[j].index = j
                 /\ ExcerptsOfPrompt[j].content = retrieved[j].content
           /\ Kept = {}
                 => /\ Len(PromptExcerpts) = 1
                    /\ PromptExcerpts[1].kind = "literal"
                    /\ PromptExcerpts[1].text
                          = "(Aucun extrait pertinent trouve dans les documents.)"
           /\ (pc = "done" /\ response.status = 200)
                 => /\ response.rag.used = Len(retrieved)
                    /\ response.rag.used = Len(response.rag.top)
                    /\ \A j \in 1..Len(retrieved) :
                          response.rag.top[j].chunk_index = retrieved[j].chunk_index
                    /\ Kept = {} => response.rag.used = 0

C14_Witness ==
    /\ pc = "done"
    /\ response.status = 200
    /\ Len(ReturnedRows) = 7
    /\ ReturnedRows[1].similarity = Similarity(19)
    /\ ReturnedRows[2].similarity = NoSimilarity
    /\ \A i \in 3..7 : ReturnedRows[i].similarity = Similarity(20)
    /\ response.rag.used = 5
    /\ response.rag.top[1].chunk_index = 3
    /\ Len(PromptExcerpts) = 9

(***************************************************************************)
(* C15. However the similarity search fails, by returning an error or by   *)
(* throwing, the completion call is still issued, with the "no relevant    *)
(* excerpt" literal as the excerpt section of its prompt, and the request  *)
(* ends with a normal result unless the completion call itself fails.      *)
(***************************************************************************)
RetrievalFailed ==
    \/ RetrievalReturned /\ matchErr
    \/ \E k \in 1..Len(log) : log[k] = "retrieval:throw"

CompletionFailed == \E k \in 1..Len(log) : log[k] = "completion:throw"

C15_RetrievalFailureNonFatal ==
    RetrievalFailed
        => /\ Len(calls) = 3
           /\ calls[3].kind = "completion"
           /\ PromptExcerpts = <<NoExcerpt>>
           /\ (pc = "done" /\ ~CompletionFailed)
                 => /\ response.status = 200
                    /\ response.rag.used = 0

(***************************************************************************)
(* C16. The middleware passes a request on if and only if both secrets are *)
(* configured and the request carries a Basic authorization header whose   *)
(* decoded username (the text before the first colon) and decoded password *)
(* (the text after it) equal the configured user and password; every other *)
(* request receives the 401 challenge.                                      *)
(***************************************************************************)
SecretsConfigured == ~falsy(USER) /\ ~falsy(PASS)

HeaderScheme == piece(split(auth.s, " "), 1)

HeaderToken == piece(split(auth.s, " "), 2)

BasicHeader ==
    /\ ~auth.null
    /\ HeaderScheme = StringOf(<<"B", "a", "s", "i", "c">>)
    /\ ~falsy(HeaderToken)

HeaderCredentials == credentialsAtFirstColon(base64Decode(HeaderToken.s))

C16_PassIffExactCredentials ==
    pc = "done"
        => /\ outcome \in {"next", "401"}
           /\ outcome = "next"
                 <=> /\ SecretsConfigured
                     /\ BasicHeader
                     /\ HeaderCredentials[1] = USER
                     /\ HeaderCredentials[2] = PASS

(***************************************************************************)
(* C17. In the chat page, each request that fails (network failure,        *)
(* unreadable body, or a status that is not OK) appends exactly one tutor  *)
(* message with the technical-error text and sets loading to false; a      *)
(* response that is not OK never counts as an answer; loading is true only *)
(* while a request is pending, so the page is never left blocked.          *)
(***************************************************************************)
Pending(r) == requests[r].stage \in {"fetch", "json"}

RequestFails(r) == Pending(r) /\ requests'[r].stage = "failed"

IsErrorMsg(m) ==
    /\ m.role = "ernesto"
    /\ Len(m.text) > Len(ErrorPrefix)
    /\ SubSeq(m.text, 1, Len(ErrorPrefix)) = ErrorPrefix

FailureAppendsOneError ==
    \A r \in 1..Len(requests) :
        /\ RequestFails(r)
              => /\ Len(chat') = Len(chat) + 1
                 /\ SubSeq(chat', 1, Len(chat)) = chat
                 /\ IsErrorMsg(chat'[Len(chat')])
                 /\ loading' = FALSE
        /\ (requests[r].stage = "json" /\ ~requests[r].res.ok /\ requests'[r] # requests[r])
              => RequestFails(r)

C17_FailureShowsErrorAndUnblocks ==
    /\ [](loading => \E r \in 1..Len(requests) : Pending(r))
    /\ [][FailureAppendsOneError]_vars

C17_Witness ==
    /\ Len(requests) = 2
    /\ requests[1].stage = "failed"
    /\ requests[2].stage = "fetch"
    /\ loading
    /\ Len(chat) = 3
    /\ chat[2] = ErrorMsg(StringOf(<<"Server error">>))
    /\ chat[3].role = "user"

(***************************************************************************)
(* C18. For every text, the empty text included, getSignals returns: each  *)
(* element of its numbers is finite, its flags are booleans, and its topic *)
(* is one of farines, fours, economie, concurrence, organisation, general. *)
(***************************************************************************)
Topics == {"farines", "fours", "economie", "concurrence", "organisation", "general"}

C18_SignalsTotalFiniteTopic ==
    pc = "extracted"
        => /\ signals.topic \in Topics
           /\ \A i \in 1..Len(signals.nums) : signals.nums[i].ip >= 0
           /\ {signals.hasVariables, signals.hasUnits, signals.isComparison, signals.isProtocol}
                 \subseteq BOOLEAN
           /\ Len(signals.nums) <= Len(numberMatches(signals.msg))

C18_Witness ==
    /\ pc = "extracted"
    /\ message = <<LongRun>> \o <<" ">> \o <<"-", "1", "2", ",", "5", "0", "%">>
    /\ Len(numberMatches(signals.msg)) = 2
    /\ signals.nums = <<[neg |-> TRUE, ip |-> 12, fp |-> <<"5">>]>>
    /\ signals.hasVariables
    /\ signals.topic = "general"

(***************************************************************************)
(* C19. Whenever charts are built (deep mode, a triggering signal, an      *)
(* envelope without charts), the list is: the radar chart, then the        *)
(* timeline chart iff isProtocol, then the bar chart iff isComparison,     *)
(* then at most one scatter chart, in that order; 1 to 4 charts, no type   *)
(* twice, never a table chart.                                              *)
(***************************************************************************)
ChartRank(type) ==
    CASE type = "radar" -> 1 [] type = "timeline" -> 2 [] type = "bar" -> 3
      [] type = "scatter" -> 4 [] OTHER -> 0

C19_FixedChartOrder ==
    SynthesizedDeepNoCharts
        => LET s == Sig
               t == ChartTypes(graph)
           IN  (s.hasVariables \/ s.isComparison \/ s.isProtocol)
                 => /\ Len(t) \in 1..4
                    /\ t[1] = "radar"
                    /\ Range(t) \subseteq {"radar", "timeline", "bar", "scatter"}
                    /\ \A i, j \in 1..Len(t) : i < j => ChartRank(t[i]) < ChartRank(t[j])
                    /\ "timeline" \in Range(t) <=> s.isProtocol
                    /\ "bar" \in Range(t) <=> s.isComparison
                    /\ "table" \notin Range(t)

C19_Witness ==
    /\ SynthesizedDeepNoCharts
    /\ Sig.isProtocol
    /\ Sig.isComparison
    /\ Len(Sig.nums) = 1
    /\ ChartTypes(graph) = <<"radar", "timeline", "bar">>

(***************************************************************************)
(* C20. As claimed: when charts are built, a scatter chart is appended if  *)
(* and only if the numbers of the text hold at least 2 distinct values,    *)
(* and a scatter chart has at least 2 points.                               *)
(***************************************************************************)
HasScatter == "scatter" \in Range(ChartTypes(graph))

ScatterOf(g) == ChartsOf(g)[Len(ChartsOf(g))]

C20_ScatterIffTwoDistinct ==
    (SynthesizedDeepNoCharts /\ Triggered)
        => /\ HasScatter <=> Cardinality(DistinctNumbers) >= 2
           /\ HasScatter => Len(ScatterOf(graph).data.points) >= 2

\* C20 as amended: a scatter chart is appended if and only if the text holds at
\* least 2 numbers, equal or not; its points are the distinct values among the
\* first 6 numbers, so it has 1 to 6 points, and a single point when those
\* numbers are all equal.
C20_ScatterIffTwoNumbers ==
    SynthesizedDeepNoCharts
        => LET s == Sig
               scatter == ScatterOf(graph)
           IN  (s.hasVariables \/ s.isComparison \/ s.isProtocol)
                 => /\ HasScatter <=> Len(s.nums) >= 2
                    /\ HasScatter
                          => /\ scatter.type = "scatter"
                             /\ Len(scatter.data.points) = Cardinality(Range(slice(s.nums, 6)))
                             /\ Len(scatter.data.points) \in 1..6

C20_Witness ==
    /\ SynthesizedDeepNoCharts
    /\ Sig.isProtocol
    /\ Len(Sig.nums) = 6
    /\ Cardinality(DistinctNumbers) = 1
    /\ ChartTypes(graph) = <<"radar", "timeline", "scatter">>
    /\ Len(ScatterOf(graph).data.points) = 1

(***************************************************************************)
(* C21. Every chart built by the synthesis is well-formed: the radar chart *)
(* has 6 labels and 6 values within 0..100, for every topic; the bar chart *)
(* has 2 labels and 2 values; the scatter chart has at most 6 points, with *)
(* pairwise distinct x, and y = 55 + 6*i at index i (from 0), which is     *)
(* strictly increasing and within 40..90, the clamp changing nothing.      *)
(***************************************************************************)
RadarWellFormed(data) ==
    /\ Len(data.labels) = 6
    /\ Len(data.values) = 6
    /\ \A i \in 1..6 : data.values[i] \in 0..100

BarWellFormed(data) == Len(data.labels) = 2 /\ Len(data.values) = 2

ScatterWellFormed(data) ==
    LET p == data.points
    IN  /\ Len(p) <= 6
        /\ \A i, j \in 1..Len(p) : i # j => p[i].x # p[j].x
        /\ \A i \in 1..Len(p) : p[i].y = 55 + 6 * (i - 1) /\ p[i].y \in 40..90
        /\ \A i, j \in 1..Len(p) : i < j => p[i].y < p[j].y

ChartWellFormed(chart) ==
    /\ chart.type = "radar" => RadarWellFormed(chart.data)
    /\ chart.type = "bar" => BarWellFormed(chart.data)
    /\ chart.type = "scatter" => ScatterWellFormed(chart.data)

C21_BuiltChartsWellFormed ==
    /\ \A t \in Topics : RadarWellFormed(buildRadar(t)) /\ BarWellFormed(BarChart(t).data)
    /\ SynthesizedDeepNoCharts
          => LET c == ChartsOf(graph)
             IN  \A i \in 1..Len(c) : ChartWellFormed(c[i])

C21_Witness ==
    /\ SynthesizedDeepNoCharts
    /\ ChartTypes(graph) = <<"radar", "bar", "scatter">>
    /\ Len(Sig.nums) > 6
    /\ Len(ChartsOf(graph)[3].data.points) = 6
    /\ ChartsOf(graph)[3].data.points[6].y = 85

(***************************************************************************)
(* C22. Whenever charts are built, the recap table of the result has a     *)
(* non-empty rows list: rows missing or empty become the 3 fixed rows,     *)
(* with the fixed columns and note; a recap table whose rows were already  *)
(* non-empty is unchanged (columns, rows, note).                            *)
(***************************************************************************)
HadRows(recap) == recap.k = "object" /\ isArray(recap.rows) /\ Len(recap.rows.v) > 0

C22_RecapRowsNeverEmpty ==
    SynthesizedDeepNoCharts
        => LET s  == Sig
               r0 == graph0.props.recap_table
               r  == graph.props.recap_table
           IN  (s.hasVariables \/ s.isComparison \/ s.isProtocol)
                 => /\ isArray(r.rows)
                    /\ Len(r.rows.v) > 0
                    /\ HadRows(r0) => r = r0
                    /\ ~HadRows(r0)
                          => /\ r.rows.v = FixedRows
                             /\ Len(r.rows.v) = 3
                             /\ r.columns = Array(<<"Levier", "Action", "Indicateur">>)
                             /\ r.note = "Tableau auto (a personnaliser des que tu donnes 3 parametres)."

\* the model gave columns and a note with an empty rows list: all three replaced
C22_Witness ==
    /\ SynthesizedDeepNoCharts
    /\ Triggered
    /\ graph0.props.recap_table = RecapObject(Array(<<"a", "b", "c">>), Array(<<>>), "du modele")
    /\ graph.props.recap_table.rows.v = FixedRows
    /\ graph.props.recap_table.columns # graph0.props.recap_table.columns

(***************************************************************************)
(* C23. Whenever the raw output holds an opening marker followed later by  *)
(* a closing marker, whatever lies between them (nothing and whitespace    *)
(* included), the first such block is found: the narrative text is the raw *)
(* output without that block, trimmed, and the candidate payload is the    *)
(* enclosed content, trimmed.                                               *)
(***************************************************************************)
\* raw1[i] is the first opening marker that a closing marker follows, raw1[j]
\* the first closing marker after it
FirstBlock(i, j) ==
    /\ i < j
    /\ raw1[i] \in OpenMarkers
    /\ raw1[j] \in CloseMarkers
    /\ \A k \in (i + 1)..(j - 1) : raw1[k] \notin CloseMarkers
    /\ \A k \in 1..(i - 1) :
          raw1[k] \in OpenMarkers => \A l \in (k + 1)..Len(raw1) : raw1[l] \notin CloseMarkers

BlockExtracted(i, j) ==
    /\ text_fr = trim(SubSeq(raw1, 1, i - 1) \o SubSeq(raw1, j + 1, Len(raw1)))
    /\ json1 = StringOf(trim(SubSeq(raw1, i + 1, j - 1)))

C23_DelimitedBlockAlwaysFound ==
    PrimaryReturned
        => \A i, j \in 1..Len(raw1) : FirstBlock(i, j) => BlockExtracted(i, j)

(***************************************************************************)
(* C24. The topic is the first of farines, fours, economie, concurrence,   *)
(* organisation whose keyword group matches the lowercased text, whatever  *)
(* groups of lower priority match too, and general exactly when no group   *)
(* matches.                                                                 *)
(***************************************************************************)
TopicOrder == <<"farines", "fours", "economie", "concurrence", "organisation">>

TopicKeywords(g) ==
    CASE g = "farines" -> { <<"f", "a", "r", "i", "n", "e">> }
      [] g = "fours" -> { <<"f", "o", "u", "r">>, <<"c", "u", "i", "s", "s", "o", "n">>,
                          <<"s", "o", "l", "e">>, <<"v", "o", "ucirc", "t", "e">>,
                          <<"v", "o", "u", "t", "e">> }
      [] g = "economie" -> { <<"m", "a", "r", "g", "e">>, <<"r", "e", "n", "t", "a", "b", "l", "e">>,
                             <<"c", "o", "ucirc", "t">>, <<"c", "o", "u", "t">>, <<"euro">> }
      [] g = "concurrence" -> { <<"c", "o", "n", "c", "u", "r", "r", "e", "n", "c", "e">>,
                                <<"p", "o", "s", "i", "t", "i", "o", "n", "n", "e", "m", "e", "n", "t">>,
                                <<"u", "s", "p">> }
      [] g = "organisation" -> { <<"o", "r", "g", "a", "n", "i", "s", "a", "t", "i", "o", "n">>,
                                 <<"p", "r", "o", "c", "e", "s", "s">>, <<"r", "u", "s", "h">>,
                                 <<"s", "e", "r", "v", "i", "c", "e">> }

\* a keyword of the group occurs in the text (for farines, also w and a digit)
GroupMatches(g, msg) ==
    \/ \E kw \in TopicKeywords(g) :
          \E i \in 1..(Len(msg) - Len(kw) + 1) : SubSeq(msg, i, i + Len(kw) - 1) = kw
    \/ /\ g = "farines"
       /\ \E i \in 1..(Len(msg) - 1) : msg[i] = "w" /\ IsDigit(msg[i + 1])

MatchingGroups(msg) == {k \in 1..Len(TopicOrder) : GroupMatches(TopicOrder[k], msg)}

C24_TopicIsFirstMatchingGroup ==
    pc = "extracted"
        => LET ks == MatchingGroups(signals.msg)
           IN  /\ ks # {} => \E k \in ks : /\ \A l \in ks : k <= l
                                           /\ signals.topic = TopicOrder[k]
               /\ ks = {} <=> signals.topic = "general"

\* a text of the oven group and of the organisation group
C24_Witness ==
    /\ pc = "extracted"
    /\ MatchingGroups(signals.msg) = {2, 5}
    /\ signals.topic = "fours"

(***************************************************************************)
(* C25. Every envelope delivered to the page is null or has a recap_table  *)
(* whose columns and rows are both sequences, in both modes and whatever   *)
(* recap_table the model supplied, so that the page can render the table   *)
(* (data.columns.map and data.rows.map, part_002:690 and 702).             *)
(***************************************************************************)
\* what NextResponse.json({ text_fr, graph }) carries after the synthesis
Delivered == Serialize(graph)

RecapRenderable(g) ==
    /\ g.props.recap_table.k = "object"
    /\ isArray(g.props.recap_table.columns)
    /\ isArray(g.props.recap_table.rows)

C25_DeliveredRecapRenderable ==
    pc = "synthesized" => (Delivered.kind = "null" \/ RecapRenderable(Delivered))

(***************************************************************************)
(* C26. The synthesis is idempotent: ensureGenericChartsAlways applied to  *)
(* its own result, with the same speed and question, returns an envelope   *)
(* equal to that result, for every envelope, speed and question.           *)
(***************************************************************************)
C26_SynthesisIdempotent == pc = "resynthesized" => graph = graph0

\* the first application built four charts and filled the recap table
C26_Witness ==
    /\ pc = "resynthesized"
    /\ speed = "APPROFONDIE"
    /\ ChartTypes(graph0) = <<"radar", "timeline", "bar", "scatter">>
    /\ graph0.props.recap_table.rows.v = FixedRows
    /\ graph = graph0

(***************************************************************************)
(* C27. The narrative text a tutor request returns is the text extracted   *)
(* from the primary response: the repair step (request, response,          *)
(* placeholder) and the chart synthesis never change it.                    *)
(***************************************************************************)
Answered == pc = "done" /\ response.status = 200

C27_NarrativeFromPrimaryAlone ==
    /\ PrimaryReturned => text_fr = extractGraphJsonBlock(raw1).text
    /\ Answered => response.text_fr = extractGraphJsonBlock(raw1).text

\* the repair output was unparsable, the placeholder got charts, the text is kept
C27_Witness ==
    /\ Answered
    /\ RepairIssued
    /\ raw2 = <<"Bonjour", " ", "{}">>
    /\ graph0 = Placeholder
    /\ Len(ChartsOf(graph)) > 0
    /\ response.text_fr = <<"Bonjour">>
    /\ raw1 # <<"Bonjour">>

(***************************************************************************)
(* C28. At most one tutor request of the chat page is in flight at any     *)
(* time: an invocation of askTutor made while a request is pending, even   *)
(* before the page has rendered again with loading = true, appends no      *)
(* message and sends no request.                                            *)
(***************************************************************************)
InFlight == {r \in 1..Len(requests) : requests[r].stage \in {"fetch", "json"}}

C28_AtMostOneRequestInFlight == Cardinality(InFlight) <= 1

(***************************************************************************)
(* C29. Under any interleaving of askTutor, response arrival and           *)
(* newConversation the conversation is a sequence of question/answer       *)
(* pairs: each tutor message is immediately preceded by a user message, so *)
(* after newConversation the conversation holds no reply to a question     *)
(* asked before the reset.                                                  *)
(***************************************************************************)
C29_ConversationIsPairs ==
    \A i \in 1..Len(chat) :
        chat[i].role = "ernesto" => (i > 1 /\ chat[i - 1].role = "user")

(***************************************************************************)
(* C30. A dictation session is stopped only by the user toggling it off or *)
(* by the timer scheduled when that same session started: the timer of an  *)
(* earlier session never stops a later session; and the dictating flag is  *)
(* true exactly while a session is running.                                 *)
(***************************************************************************)
StoppedByOwnTimerOrUser(n) ==
    \/ sessions[n].stoppedBy \in {"none", "user"}
    \/ sessions[n].stoppedBy = "timeout" /\ sessions[n].stopper = n

C30_SessionStoppedByOwnTimerOnly ==
    /\ \A n \in 1..Len(sessions) : StoppedByOwnTimerOrUser(n)
    /\ dictating <=> \E n \in 1..Len(sessions) : sessions[n].running

=============================================================================
